---- MODULE Spec2Model ----
(***************************************************************************)
(* A model of the AYRIA utility library's AES engine (key schedule, block  *)
(* transform in its portable and its AES-NI form, the block functions of   *)
(* the modes of operation, the mode drivers and the PKCS#7 wrapper) and of *)
(* three of its utilities: Ringbuffer_t, Bytebuffer_t and the conversions  *)
(* between UTF-8 and escaped ASCII.                                        *)
(*                                                                         *)
(* Data representation.  A byte is a number in 0..255.  A uint32_t is the  *)
(* tuple of its four bytes, least significant first, which is the layout   *)
(* std::bit_cast gives on the x86 targets the code is written for.  A      *)
(* Portable::Block_t (std::array<uint32_t, 4>) is a tuple of four such     *)
(* words; a HW::Block_t (__m128i) is a tuple of sixteen bytes.  C++ index  *)
(* i is TLA+ index i + 1.                                                  *)
(***************************************************************************)
EXTENDS Integers, Sequences, FiniteSets, TLC

(***************************************************************************)
(* Bit operations on bytes, through 16 x 16 tables of the operations on    *)
(* 4-bit halves.                                                           *)
(***************************************************************************)
\* A function over 1..n as the tuple of its values.
Tuple(f) == f \o <<>>

\* TRUE of every sequence.  A loop tests it on what the pass before left, so that the passes
\* are evaluated in their order.
Evaluated(s) == Len(s) >= 0

RECURSIVE BitXor(_, _, _)
BitXor(a, b, n) ==
    IF n = 0 THEN 0 ELSE ((a + b) % 2) + 2 * BitXor(a \div 2, b \div 2, n - 1)

RECURSIVE BitAnd(_, _, _)
BitAnd(a, b, n) ==
    IF n = 0 THEN 0
    ELSE ((a % 2) * (b % 2)) + 2 * BitAnd(a \div 2, b \div 2, n - 1)

XorNibble == Tuple([a \in 1..16 |-> Tuple([b \in 1..16 |-> BitXor(a - 1, b - 1, 4)])])

AndNibble == Tuple([a \in 1..16 |-> Tuple([b \in 1..16 |-> BitAnd(a - 1, b - 1, 4)])])

\* The operation on bytes whose table on 4-bit halves is T.
ByteOp(T, a, b) ==
    T[(a \div 16) + 1][(b \div 16) + 1] * 16 + T[(a % 16) + 1][(b % 16) + 1]

\* a ^ b on uint8_t operands.
Xor8(a, b) == ByteOp(XorNibble, a, b)

\* a & b on uint8_t operands.
And8(a, b) == ByteOp(AndNibble, a, b)

\* a ^ b on int operands below 2^16 (a promoted uint8_t shifted left).
Xor16(a, b) == Xor8(a \div 256, b \div 256) * 256 + Xor8(a % 256, b % 256)

\* Conversion of an int to uint8_t.
U8(v) == v % 256

\* std::rotl on a uint8_t.
Rotl8(v, n) == ((v * (2 ^ n)) % 256) + (v \div (2 ^ (8 - n)))

(***************************************************************************)
(* uint32_t arithmetic on the little-endian byte tuple.                    *)
(***************************************************************************)
Word(a, b, c, d) == <<a, b, c, d>>

ZeroWord == <<0, 0, 0, 0>>

\* The uint32_t of a small constant (below 2^8).
WordOf(v) == <<v, 0, 0, 0>>

Xor32(a, b) == Tuple([k \in 1..4 |-> Xor8(a[k], b[k])])

And32(a, b) == Tuple([k \in 1..4 |-> And8(a[k], b[k])])

\* w << n for 0 < n < 8: bits cross into the next byte, the top ones are lost.
Shl32(w, n) ==
    LET lo(x) == (x * (2 ^ n)) % 256
        hi(x) == x \div (2 ^ (8 - n))
    IN  <<lo(w[1]), lo(w[2]) + hi(w[1]), lo(w[3]) + hi(w[2]), lo(w[4]) + hi(w[3])>>

\* w >> n for 0 < n < 8.
Shr32(w, n) ==
    LET hi(x) == x \div (2 ^ n)
        lo(x) == (x % (2 ^ n)) * (2 ^ (8 - n))
    IN  <<hi(w[1]) + lo(w[2]), hi(w[2]) + lo(w[3]), hi(w[3]) + lo(w[4]), hi(w[4])>>

\* w * k modulo 2^32 for a constant k below 2^8, with the carries between bytes.
MulC32(w, k) ==
    LET t1 == w[1] * k
        t2 == w[2] * k + (t1 \div 256)
        t3 == w[3] * k + (t2 \div 256)
        t4 == w[4] * k + (t3 \div 256)
    IN  <<t1 % 256, t2 % 256, t3 % 256, t4 % 256>>

\* std::rotr on a uint32_t by 8 and by 16 bits.
Rotr32by8(w) == <<w[2], w[3], w[4], w[1]>>

Rotr32by16(w) == <<w[3], w[4], w[1], w[2]>>

(***************************************************************************)
(* Portable: multiplication over GF(2^8).                                  *)
(***************************************************************************)
Mul2_u8(Input) == U8(Xor16(Input * 2, (Input \div 128) * 27))

Mul3_u8(Input) == U8(Xor8(Mul2_u8(Input), Input))

\* Input ^= Input << n, on a uint8_t.
XorShifted(Input, n) == Xor8(Input, U8(Input * (2 ^ n)))

\* Div3 whose last step reduces with 0x1B, the constant of Mul2.
C14_Div3Return_1B(Input) == U8(Xor8(Input, (Input \div 128) * 27))

\* Input ^ ((Input >> 7) * 0x09), the return statement of Div3.
Div3Return(Input) == U8(Xor8(Input, (Input \div 128) * 9))

Div3(Input) == Div3Return(XorShifted(XorShifted(XorShifted(Input, 1), 2), 4))

Mask7F == <<127, 127, 127, 127>>

Mask80 == <<128, 128, 128, 128>>

Mask3F == <<63, 63, 63, 63>>

Mask40 == <<64, 64, 64, 64>>

\* Mul2 on a word without the mask 0x7F7F7F7F: the top bit of a byte enters the next byte.
C15_Mul2_u32_unmasked(Input) ==
    Xor32(Shl32(Input, 1), MulC32(Shr32(And32(Input, Mask80), 7), 27))

Mul2_u32(Input) ==
    Xor32(Shl32(And32(Input, Mask7F), 1), MulC32(Shr32(And32(Input, Mask80), 7), 27))

\* Mul3 on a word as the product by 3 in every byte.
C19_Mul3_u32_by3(Input) == Xor32(Mul2_u32(Input), Input)

Mul3_u32(Input) ==
    Xor32(Xor32(Shl32(And32(Input, Mask3F), 2),
                MulC32(Shr32(And32(Input, Mask80), 7), 54)),
          MulC32(Shr32(And32(Input, Mask40), 6), 27))

(***************************************************************************)
(* Portable: plumbing for 128-bit blocks.                                  *)
(***************************************************************************)
ZeroBlock == <<ZeroWord, ZeroWord, ZeroWord, ZeroWord>>

XOR(A, B) == Tuple([k \in 1..4 |-> Xor32(A[k], B[k])])

Shift4(Input) == <<ZeroWord, Input[1], Input[2], Input[3]>>

\* Control is given by its four 2-bit fields, lowest first.
Shuffle4(Input, Control) ==
    <<Input[(Control % 4) + 1], Input[((Control \div 4) % 4) + 1],
      Input[((Control \div 16) % 4) + 1], Input[((Control \div 64) % 4) + 1]>>

\* std::bit_cast between a block and its sixteen bytes.
BlockBytes(B) == B[1] \o B[2] \o B[3] \o B[4]

BytesBlock(s) ==
    <<SubSeq(s, 1, 4), SubSeq(s, 5, 8), SubSeq(s, 9, 12), SubSeq(s, 13, 16)>>

\* A zero-initialised std::array<uint8_t, n>.
ZeroBytes(n) == Tuple([k \in 1..n |-> 0])

(***************************************************************************)
(* Portable: the substitution boxes.  The generating do-while loop is run  *)
(* one iteration at a time by SBoxStep on the record of its locals; `done' *)
(* is the loop condition P != 1 having failed, `iterations' counts the     *)
(* bodies executed.                                                        *)
(***************************************************************************)
SBoxStart == [P |-> 1, Q |-> 1, Buffer |-> ZeroBytes(256), iterations |-> 0, done |-> FALSE]

\* 0x63 ^ (Q ^ rotl(Q, 1) ^ rotl(Q, 2) ^ rotl(Q, 3) ^ rotl(Q, 4))
RECURSIVE AffineSum(_, _)
AffineSum(Q, n) == IF n = 0 THEN Q ELSE Xor8(AffineSum(Q, n - 1), Rotl8(Q, n))

Affine(Q) == Xor8(99, AffineSum(Q, 4))

\* The loop body with the new P and Q.
SBoxBody(s, P, Q) ==
    [P |-> P, Q |-> Q,
     Buffer |-> [s.Buffer EXCEPT ![P + 1] = Affine(Q)],
     iterations |-> s.iterations + 1,
     done |-> (P = 1)]

SBoxStep(s) == IF s.done THEN s ELSE SBoxBody(s, Mul3_u8(s.P), Div3(s.Q))

\* Up to n iterations of the loop from s.
RECURSIVE SBoxRun(_, _)
SBoxRun(n, s) ==
    IF n = 1 THEN SBoxStep(s)
    ELSE LET half == SBoxRun(n \div 2, s)
         IN  IF half.done THEN half ELSE SBoxRun(n - (n \div 2), half)

\* The loop leaves after at most 256 iterations; then Buffer[0] = 0x63.
SBox == [SBoxRun(256, SBoxStart).Buffer EXCEPT ![1] = 99]

RECURSIVE INVSBoxFill(_, _, _)
INVSBoxFill(i, n, Buffer) ==
    IF n = 1 THEN [Buffer EXCEPT ![SBox[i + 1] + 1] = i]
    ELSE LET half == INVSBoxFill(i, n \div 2, Buffer)
         IN  IF Len(half) = 256
             THEN INVSBoxFill(i + (n \div 2), n - (n \div 2), half)
             ELSE half

INVSBox == INVSBoxFill(0, 256, ZeroBytes(256))

(***************************************************************************)
(* Portable: the four byte-level operations.                               *)
(***************************************************************************)
SubstituteWord(W) == Tuple([k \in 1..4 |-> SBox[W[k] + 1]])

INVSubstituteWord(W) == Tuple([k \in 1..4 |-> INVSBox[W[k] + 1]])

Substitute(Input) == Tuple([k \in 1..4 |-> SubstituteWord(Input[k])])

INVSubstitute(Input) == Tuple([k \in 1..4 |-> INVSubstituteWord(Input[k])])

\* asBytes[w][j] is Input[w + 1][j + 1].
Shiftrow(Input) ==
    <<Word(Input[1][1], Input[2][2], Input[3][3], Input[4][4]),
      Word(Input[2][1], Input[3][2], Input[4][3], Input[1][4]),
      Word(Input[3][1], Input[4][2], Input[1][3], Input[2][4]),
      Word(Input[4][1], Input[1][2], Input[2][3], Input[3][4])>>

INVShiftrow(Input) ==
    <<Word(Input[1][1], Input[4][2], Input[3][3], Input[2][4]),
      Word(Input[2][1], Input[1][2], Input[4][3], Input[3][4]),
      Word(Input[3][1], Input[2][2], Input[1][3], Input[4][4]),
      Word(Input[4][1], Input[3][2], Input[2][3], Input[1][4])>>

\* Temp ^ std::rotr(Word ^ Temp, 8), the return statement of Mix.
MixReturn(W, Temp) == Xor32(Temp, Rotr32by8(Xor32(W, Temp)))

MixWord(W) == MixReturn(W, Xor32(Mul2_u32(W), Rotr32by16(W)))

\* Word ^ Temp ^ std::rotr(Temp, 16), the argument of Mix in INVMix.
INVMixArgument(W, Temp) == Xor32(Xor32(W, Temp), Rotr32by16(Temp))

INVMixWord(W) == MixWord(INVMixArgument(W, Mul3_u32(W)))

Mix(Input) == Tuple([k \in 1..4 |-> MixWord(Input[k])])

INVMix(Input) == Tuple([k \in 1..4 |-> INVMixWord(Input[k])])

(***************************************************************************)
(* Portable: the key schedule.  A schedule is the sequence of its          *)
(* Rounds + 1 blocks.                                                      *)
(***************************************************************************)
Roundconstants == <<1, 2, 4, 8, 16, 32, 64, 128, 27, 54>>

\* The returned block, from S = <<Substitute(Input[1]), Substitute(Input[3])>>.
KeygenassistReturn(S, RCON) ==
    <<S[1], Xor32(Rotr32by8(S[1]), RCON), S[2], Xor32(Rotr32by8(S[2]), RCON)>>

Keygenassist(Input, i) ==
    KeygenassistReturn(Tuple([k \in 1..2 |-> SubstituteWord(Input[2 * k])]),
                       WordOf(Roundconstants[i + 1]))

\* std::array<Block_t, Rounds + 1> Schedule{}; memcpy(Schedule.data(), Key.data(), Keysize * 4)
BlocksOfBytes(bytes, n) ==
    Tuple([k \in 1..n |-> BytesBlock(SubSeq(bytes, 16 * k - 15, 16 * k))])

ScheduleOfKey(Keysize, Rounds, Key) ==
    BlocksOfBytes(Key \o ZeroBytes((Rounds + 1) * 16 - Keysize * 4), Rounds + 1)

\* T = XOR(T, Shift4(T)), once and n times.
XORShift4(T) == XOR(T, Shift4(T))

RECURSIVE FoldShifted(_, _)
FoldShifted(T, n) == IF n = 0 THEN T ELSE XORShift4(FoldShifted(T, n - 1))

\* T = XOR(T, Shift4(T)) three times, then T = XOR(A, T).
Fold3(A, T) == XOR(A, FoldShifted(T, 3))

\* The body of the AES-128 loop.
Round128(Schedule, i) ==
    [Schedule EXCEPT
        ![i + 2] = Fold3(Shuffle4(Keygenassist(Schedule[i + 1], i), 255), Schedule[i + 1])]

RECURSIVE Keyexpansion128(_, _)
Keyexpansion128(Schedule, i) ==
    IF Evaluated(Schedule) /\ i >= 10 THEN Schedule ELSE Keyexpansion128(Round128(Schedule, i), i + 1)

\* The assignments that end the body of the AES-192 loop.
Store192(Schedule, i, T, U) ==
    IF i = 12
    THEN [Schedule EXCEPT ![i + 1] = T]
    ELSE [Schedule EXCEPT
             ![i + 1] = <<Schedule[i + 1][1], Schedule[i + 1][2], T[1], T[2]>>,
             ![i + 2] = <<T[3], T[4], U[1], U[2]>>]

\* B and U of the AES-192 loop, from T.
Round192From(Schedule, i, T) ==
    Store192(Schedule, i, T, XOR(Shuffle4(T, 255), FoldShifted(Schedule[i + 1], 1)))

\* The body of the AES-192 loop.
Round192(Schedule, i) ==
    Round192From(Schedule, i,
                 Fold3(Shuffle4(Keygenassist(Schedule[i + 1], i \div 2), 85), Schedule[i]))

RECURSIVE Keyexpansion192(_, _)
Keyexpansion192(Schedule, i) ==
    IF Evaluated(Schedule) /\ i >= 12 THEN Schedule ELSE Keyexpansion192(Round192(Schedule, i), i + 1)

\* The body of the AES-256 loop.
Round256(Schedule, i) ==
    [Schedule EXCEPT
        ![i + 2] = Fold3(Shuffle4(Keygenassist(Schedule[i + 1],
                                               IF i % 2 = 1 THEN i \div 2 ELSE 0),
                                  IF i % 2 = 1 THEN 255 ELSE 170),
                         Schedule[i])]

RECURSIVE Keyexpansion256(_, _)
Keyexpansion256(Schedule, i) ==
    IF Evaluated(Schedule) /\ i >= 14 THEN Schedule ELSE Keyexpansion256(Round256(Schedule, i), i + 1)

\* The branches, on the Schedule the key was copied into.
KeyexpansionOf(Keysize, Rounds, Schedule) ==
    IF Keysize = 4 /\ Rounds = 10 THEN Keyexpansion128(Schedule, 0)
    ELSE IF Keysize = 6 /\ Rounds = 12 THEN Keyexpansion192(Schedule, 1)
    ELSE IF Keysize = 8 /\ Rounds = 14 THEN Keyexpansion256(Schedule, 1)
    ELSE Schedule

Keyexpansion(Keysize, Rounds, Key) ==
    KeyexpansionOf(Keysize, Rounds, ScheduleOfKey(Keysize, Rounds, Key))

\* for (i = 1; i < Rounds + 1; ++i) Result[i] = INVMix(Keys[Rounds - i]);
RECURSIVE INVKeyLoop(_, _, _, _)
INVKeyLoop(Rounds, Keys, Result, i) ==
    IF Evaluated(Result) /\ i >= Rounds + 1 THEN Result
    ELSE INVKeyLoop(Rounds, Keys, [Result EXCEPT ![i + 1] = INVMix(Keys[Rounds - i + 1])], i + 1)

INVSchedule(Rounds, Keys) ==
    [INVKeyLoop(Rounds, Keys, BlocksOfBytes(ZeroBytes((Rounds + 1) * 16), Rounds + 1), 1)
        EXCEPT ![1] = Keys[Rounds + 1], ![Rounds + 1] = Keys[1]]

INVKeyexpansion(Keysize, Rounds, Key) == INVSchedule(Rounds, Keyexpansion(Keysize, Rounds, Key))

(***************************************************************************)
(* Portable: the block transform.                                          *)
(***************************************************************************)
RECURSIVE EncryptRounds(_, _, _, _)
EncryptRounds(Rounds, Block, Keys, i) ==
    IF Evaluated(Block) /\ i >= Rounds THEN Block
    ELSE EncryptRounds(Rounds, XOR(Mix(Substitute(Shiftrow(Block))), Keys[i + 1]), Keys, i + 1)

Encryptblock(Rounds, Input, Keys) ==
    XOR(Substitute(Shiftrow(EncryptRounds(Rounds, XOR(Input, Keys[1]), Keys, 1))),
        Keys[Rounds + 1])

RECURSIVE DecryptRounds(_, _, _, _)
DecryptRounds(Rounds, Block, Keys, i) ==
    IF Evaluated(Block) /\ i >= Rounds THEN Block
    ELSE DecryptRounds(Rounds, XOR(INVMix(INVSubstitute(INVShiftrow(Block))), Keys[i + 1]),
                       Keys, i + 1)

Decryptblock(Rounds, Input, Keys) ==
    XOR(INVSubstitute(INVShiftrow(DecryptRounds(Rounds, XOR(Input, Keys[1]), Keys, 1))),
        Keys[Rounds + 1])

(***************************************************************************)
(* The AES-NI and SSE2 instructions the HW namespace is written with, on   *)
(* the sixteen bytes of an __m128i (byte 0 the least significant), as the  *)
(* instruction set reference defines them: the S-box is the inverse in     *)
(* GF(2^8) followed by the affine map, MixColumns the product with the     *)
(* circulant matrix (2 3 1 1), InvMixColumns the one with (14 11 13 9).    *)
(***************************************************************************)
\* xtime: the product with x modulo x^8 + x^4 + x^3 + x + 1.
GFDouble(a) == IF a >= 128 THEN Xor8((a * 2) % 256, 27) ELSE a * 2

RECURSIVE GFMul(_, _)
GFMul(a, b) ==
    IF b = 0 THEN 0
    ELSE Xor8(IF b % 2 = 1 THEN a ELSE 0, GFMul(GFDouble(a), b \div 2))

GFSquare(a) == GFMul(a, a)

RECURSIVE GFPower(_, _)
GFPower(a, n) ==
    IF n = 0 THEN 1
    ELSE IF n % 2 = 0 THEN GFSquare(GFPower(a, n \div 2))
    ELSE GFMul(a, GFPower(a, n - 1))

\* a^254, the inverse of a (0 for 0).
GFInverse(a) == GFPower(a, 254)

\* Bit i of the affine map: b_i + b_(i+4) + b_(i+5) + b_(i+6) + b_(i+7) + c_i, c = 0x63.
AffineBit(b, i) ==
    LET bit(v, k) == (v \div (2 ^ (k % 8))) % 2
    IN  (bit(b, i) + bit(b, i + 4) + bit(b, i + 5) + bit(b, i + 6) + bit(b, i + 7)
            + bit(99, i)) % 2

\* The affine map of b, from bit i up.
RECURSIVE AffineFrom(_, _)
AffineFrom(b, i) ==
    IF i = 8 THEN 0 ELSE AffineBit(b, i) * (2 ^ i) + AffineFrom(b, i + 1)

RefSubByte(a) == AffineFrom(GFInverse(a), 0)

RefSBox == Tuple([a \in 1..256 |-> RefSubByte(a - 1)])

\* The inverse table, from the S-box.
InverseTable(Box) == Tuple([v \in 1..256 |-> (CHOOSE a \in 1..256 : Box[a] = v - 1) - 1])

RefINVSBox == InverseTable(RefSBox)

\* GFTimes[k][a + 1] is the product of k and a, for k in 1..14.
GFTimes == Tuple([k \in 1..14 |-> Tuple([a \in 1..256 |-> GFMul(k, a - 1)])])

Xor8x4(t) == Xor8(Xor8(t[1], t[2]), Xor8(t[3], t[4]))

\* The product of a column a with the circulant matrix whose first row is Row.
RefColumn(Row, a) ==
    Tuple([r \in 1..4 |->
        Xor8x4(Tuple([c \in 1..4 |-> GFTimes[Row[((c - r + 4) % 4) + 1]][a[c] + 1]]))])

\* The columns of s, each multiplied with the matrix.
Concat4(t) == t[1] \o t[2] \o t[3] \o t[4]

RefColumns(Row, s) ==
    Concat4(Tuple([c \in 1..4 |-> RefColumn(Row, SubSeq(s, 4 * c - 3, 4 * c))]))

\* State byte 4c + r is row r of column c.
RefShiftRows(s) ==
    Tuple([k \in 1..16 |->
        s[4 * ((((k - 1) \div 4) + ((k - 1) % 4)) % 4) + ((k - 1) % 4) + 1]])

RefInvShiftRows(s) ==
    Tuple([k \in 1..16 |->
        s[4 * ((((k - 1) \div 4) + 4 - ((k - 1) % 4)) % 4) + ((k - 1) % 4) + 1]])

RefSubBytes(s) == Tuple([k \in 1..16 |-> RefSBox[s[k] + 1]])

RefInvSubBytes(s) == Tuple([k \in 1..16 |-> RefINVSBox[s[k] + 1]])

RefMixColumns(s) == RefColumns(<<2, 3, 1, 1>>, s)

RefInvMixColumns(s) == RefColumns(<<14, 11, 13, 9>>, s)

mm_xor_si128(a, b) == Tuple([k \in 1..16 |-> Xor8(a[k], b[k])])

\* Byte shift left by n bytes, zeros shifted in.
mm_slli_si128(a, n) == Tuple([k \in 1..16 |-> IF k <= n THEN 0 ELSE a[k - n]])

\* 32-bit lane j of the result is lane imm[2j+1 : 2j] of a.
mm_shuffle_epi32(a, imm) ==
    Tuple([k \in 1..16 |-> a[4 * ((imm \div (4 ^ ((k - 1) \div 4))) % 4) + ((k - 1) % 4) + 1]])

\* Low half from a (its high half if imm bit 0), high half from b (high if bit 1).
mm_shuffle_pd(a, b, imm) ==
    Tuple([k \in 1..16 |->
        IF k <= 8 THEN a[k + 8 * (imm % 2)] ELSE b[(k - 8) + 8 * ((imm \div 2) % 2)]])

mm_aesenc_si128(a, RoundKey) == mm_xor_si128(RefMixColumns(RefSubBytes(RefShiftRows(a))), RoundKey)

mm_aesenclast_si128(a, RoundKey) == mm_xor_si128(RefSubBytes(RefShiftRows(a)), RoundKey)

mm_aesdec_si128(a, RoundKey) ==
    mm_xor_si128(RefInvMixColumns(RefInvSubBytes(RefInvShiftRows(a))), RoundKey)

mm_aesdeclast_si128(a, RoundKey) == mm_xor_si128(RefInvSubBytes(RefInvShiftRows(a)), RoundKey)

mm_aesimc_si128(a) == RefInvMixColumns(a)

\* RotWord(w) ^ RCON: the rotation right by 8 bits, imm8 added to the low byte.
RefRotWord(w, imm8) == <<Xor8(w[2], imm8), w[3], w[4], w[1]>>

\* The four lanes, from S = <<SubWord(X1), SubWord(X3)>>; X1 is lane 1, X3 lane 3.
RefKeygenLanes(S, imm8) == S[1] \o RefRotWord(S[1], imm8) \o S[2] \o RefRotWord(S[2], imm8)

mm_aeskeygenassist_si128(a, imm8) ==
    RefKeygenLanes(Tuple([j \in 1..2 |->
                       Tuple([k \in 1..4 |-> RefSBox[a[4 * (2 * j - 1) + k] + 1]])]),
                   imm8)

(***************************************************************************)
(* HW: key schedule and block transform.                                   *)
(***************************************************************************)
HW_Roundconstants == <<1, 2, 4, 8, 16, 32, 64, 128, 27, 54>>

\* The switch has the cases 0..9; any other i reaches std::unreachable().
HW_Keygenassist(Input, i) == mm_aeskeygenassist_si128(Input, HW_Roundconstants[i + 1])

HW_BlocksOfBytes(bytes, n) == Tuple([k \in 1..n |-> SubSeq(bytes, 16 * k - 15, 16 * k)])

HW_ScheduleOfKey(Keysize, Rounds, Key) ==
    HW_BlocksOfBytes(Key \o ZeroBytes((Rounds + 1) * 16 - Keysize * 4), Rounds + 1)

\* T = _mm_xor_si128(T, _mm_slli_si128(T, 4)), once and n times.
HW_XORShift4(T) == mm_xor_si128(T, mm_slli_si128(T, 4))

RECURSIVE HW_FoldShifted(_, _)
HW_FoldShifted(T, n) == IF n = 0 THEN T ELSE HW_XORShift4(HW_FoldShifted(T, n - 1))

HW_Fold3(A, T) == mm_xor_si128(A, HW_FoldShifted(T, 3))

\* The body of the AES-128 loop.
HW_Round128(Schedule, i) ==
    [Schedule EXCEPT
        ![i + 2] = HW_Fold3(mm_shuffle_epi32(HW_Keygenassist(Schedule[i + 1], i), 255),
                            Schedule[i + 1])]

RECURSIVE HW_Keyexpansion128(_, _)
HW_Keyexpansion128(Schedule, i) ==
    IF Evaluated(Schedule) /\ i >= 10 THEN Schedule ELSE HW_Keyexpansion128(HW_Round128(Schedule, i), i + 1)

\* The assignments that end the body of the AES-192 loop.
HW_Store192(Schedule, i, T, U) ==
    IF i = 12
    THEN [Schedule EXCEPT ![i + 1] = T]
    ELSE [Schedule EXCEPT
             ![i + 1] = mm_shuffle_pd(Schedule[i + 1], T, 0),
             ![i + 2] = mm_shuffle_pd(T, U, 1)]

\* B and U of the AES-192 loop, from T.
HW_Round192From(Schedule, i, T) ==
    HW_Store192(Schedule, i, T,
                mm_xor_si128(mm_shuffle_epi32(T, 255), HW_FoldShifted(Schedule[i + 1], 1)))

\* The body of the AES-192 loop.
HW_Round192(Schedule, i) ==
    HW_Round192From(Schedule, i,
        HW_Fold3(mm_shuffle_epi32(HW_Keygenassist(Schedule[i + 1], i \div 2), 85),
                 Schedule[i]))

RECURSIVE HW_Keyexpansion192(_, _)
HW_Keyexpansion192(Schedule, i) ==
    IF Evaluated(Schedule) /\ i >= 12 THEN Schedule ELSE HW_Keyexpansion192(HW_Round192(Schedule, i), i + 1)

\* The body of the AES-256 loop.
HW_Round256(Schedule, i) ==
    [Schedule EXCEPT
        ![i + 2] = HW_Fold3(IF i % 2 = 1
                            THEN mm_shuffle_epi32(HW_Keygenassist(Schedule[i + 1], i \div 2), 255)
                            ELSE mm_shuffle_epi32(mm_aeskeygenassist_si128(Schedule[i + 1], 0), 170),
                            Schedule[i])]

RECURSIVE HW_Keyexpansion256(_, _)
HW_Keyexpansion256(Schedule, i) ==
    IF Evaluated(Schedule) /\ i >= 14 THEN Schedule ELSE HW_Keyexpansion256(HW_Round256(Schedule, i), i + 1)

\* The branches, on the Schedule the key was copied into.
HW_KeyexpansionOf(Keysize, Rounds, Schedule) ==
    IF Keysize = 4 /\ Rounds = 10 THEN HW_Keyexpansion128(Schedule, 0)
    ELSE IF Keysize = 6 /\ Rounds = 12 THEN HW_Keyexpansion192(Schedule, 1)
    ELSE IF Keysize = 8 /\ Rounds = 14 THEN HW_Keyexpansion256(Schedule, 1)
    ELSE Schedule

HW_Keyexpansion(Keysize, Rounds, Key) ==
    HW_KeyexpansionOf(Keysize, Rounds, HW_ScheduleOfKey(Keysize, Rounds, Key))

RECURSIVE HW_INVKeyLoop(_, _, _, _)
HW_INVKeyLoop(Rounds, Keys, Result, i) ==
    IF Evaluated(Result) /\ i >= Rounds + 1 THEN Result
    ELSE HW_INVKeyLoop(Rounds, Keys,
                       [Result EXCEPT ![i + 1] = mm_aesimc_si128(Keys[Rounds - i + 1])], i + 1)

HW_INVSchedule(Rounds, Keys) ==
    [HW_INVKeyLoop(Rounds, Keys, HW_BlocksOfBytes(ZeroBytes((Rounds + 1) * 16), Rounds + 1), 1)
        EXCEPT ![1] = Keys[Rounds + 1], ![Rounds + 1] = Keys[1]]

HW_INVKeyexpansion(Keysize, Rounds, Key) ==
    HW_INVSchedule(Rounds, HW_Keyexpansion(Keysize, Rounds, Key))

RECURSIVE HW_EncryptRounds(_, _, _, _)
HW_EncryptRounds(Rounds, Block, Keys, i) ==
    IF Evaluated(Block) /\ i >= Rounds THEN Block
    ELSE HW_EncryptRounds(Rounds, mm_aesenc_si128(Block, Keys[i + 1]), Keys, i + 1)

\* HW::Encryptblock with _mm_aesenc_si128 in the last round as well.
C2_HW_Encryptblock_aesenc(Rounds, Input, Keys) ==
    mm_aesenc_si128(HW_EncryptRounds(Rounds, mm_xor_si128(Input, Keys[1]), Keys, 1),
                    Keys[Rounds + 1])

HW_Encryptblock(Rounds, Input, Keys) ==
    mm_aesenclast_si128(HW_EncryptRounds(Rounds, mm_xor_si128(Input, Keys[1]), Keys, 1),
                        Keys[Rounds + 1])

RECURSIVE HW_DecryptRounds(_, _, _, _)
HW_DecryptRounds(Rounds, Block, Keys, i) ==
    IF Evaluated(Block) /\ i >= Rounds THEN Block
    ELSE HW_DecryptRounds(Rounds, mm_aesdec_si128(Block, Keys[i + 1]), Keys, i + 1)

HW_Decryptblock(Rounds, Input, Keys) ==
    mm_aesdeclast_si128(HW_DecryptRounds(Rounds, mm_xor_si128(Input, Keys[1]), Keys, 1),
                        Keys[Rounds + 1])

(***************************************************************************)
(* Modes: GF(2^128) multiplication by alpha.                               *)
(***************************************************************************)
\* A char of m128i_i8 (signed) from its byte, and its conversion back to a byte.
SChar(b) == IF b >= 128 THEN b - 256 ELSE b

\* The low eight bits of an int in -2^15 .. 2^15: conversion to (unsigned) char.
LowByte(v) == (v + 65536) % 256

\* An arithmetic shift right of a (promoted) char by 7: -1 or 0.
Sar7(c) == IF c < 0 THEN -1 ELSE 0

\* a | b on bytes, as a ^ b ^ (a & b).
Or8(a, b) == Xor8(Xor8(a, b), And8(a, b))

\* HW::Mul128: for (i = 0; i < 16; ++i) { Temp = R[i] & 0x80; R[i] = R[i] << 1; R[i] |= Carry;
\* Carry = Temp >> 7; }  Carry = 0 - Carry;  R[0] ^= 0x87 & Carry;
\* One element of a Mul128 loop: the shifted element with the Carry in, and the Carry out.
ShiftCarry(Element, Carry) ==
    [Element |-> Or8(U8(Element * 2), Carry), Carry |-> And8(Element, 128) \div 128]

\* The loop state after element i + 1 was replaced by e.Element.
CarryOn(Result, i, e) == [Result |-> [Result EXCEPT ![i + 1] = e.Element], Carry |-> e.Carry]

RECURSIVE HW_Mul128Loop(_, _)
HW_Mul128Loop(r, i) ==
    IF i >= 16 THEN r
    ELSE HW_Mul128Loop(CarryOn(r.Result, i, ShiftCarry(r.Result[i + 1], r.Carry)), i + 1)

\* Carry = uint8_t(0 - Carry); Result.m128i_i8[0] ^= uint8_t(0x87 & Carry);
HW_Mul128Return(r) ==
    [r.Result EXCEPT ![1] = Xor8(r.Result[1], And8(135, U8(256 - r.Carry)))]

HW_Mul128(Value) == HW_Mul128Return(HW_Mul128Loop([Result |-> Value, Carry |-> 0], 0))

\* Portable::Mul128 indexes the four-word Block_t with i = 15 .. 0.  Elements 15 .. 4 lie
\* outside the array: what they read is not determined by the program, so the Carry that
\* arrives at element 3 is the input `Garbage' (0 or 1).  Elements 3 .. 0 are each replaced
\* by uint8_t(word << 1) | Carry, a value below 256.
\* The loop state after word i + 1 was replaced by the (zero-extended) e.Element.
WordCarryOn(Result, i, e) ==
    [Result |-> [Result EXCEPT ![i + 1] = WordOf(e.Element)], Carry |-> e.Carry]

RECURSIVE Mul128Loop(_, _)
Mul128Loop(r, i) ==
    IF i < 0 THEN r
    ELSE Mul128Loop(WordCarryOn(r.Result, i, ShiftCarry(r.Result[i + 1][1], r.Carry)), i - 1)

\* if (Carry) Result[0] ^= 0x87;
Mul128Return(r) ==
    IF r.Carry # 0 THEN [r.Result EXCEPT ![1] = Xor32(r.Result[1], WordOf(135))] ELSE r.Result

Mul128(Value, Garbage) == Mul128Return(Mul128Loop([Result |-> Value, Carry |-> Garbage], 3))

\* The element indices Portable::Mul128 reads and writes.
Mul128Indices == 0..15

\* AES::Modes::MUL128 on a Portable::Block_t: on the sixteen uint8_t of the block.
RECURSIVE MUL128Loop(_, _)
MUL128Loop(Result, i) ==
    IF i <= 0 THEN Result
    ELSE MUL128Loop([Result EXCEPT
                        ![i + 1] = U8(Or8(U8(Result[i + 1] * 2), Result[i] \div 128))],
                    i - 1)

\* Result[0] = (Result[0] << 1) ^ (Carry * 0x87);
MUL128Return(Result, Carry) ==
    [Result EXCEPT ![1] = U8(Xor16(Result[1] * 2, Carry * 135))]

\* The function on the sixteen bytes of the block.
MUL128Bytes(Bytes) == MUL128Return(MUL128Loop(Bytes, 15), U8(Bytes[16] \div 128))

MUL128(Input) == BytesBlock(MUL128Bytes(BlockBytes(Input)))

\* AES::Modes::MUL128 on a HW::Block_t: on the sixteen (signed) char of m128i_i8.
RECURSIVE HW_MUL128Loop(_, _)
HW_MUL128Loop(Result, i) ==
    IF i <= 0 THEN Result
    ELSE HW_MUL128Loop([Result EXCEPT
                           ![i + 1] = IF Sar7(SChar(Result[i])) = -1
                                      THEN 255
                                      ELSE U8(Result[i + 1] * 2)],
                       i - 1)

\* Result.m128i_i8[0] = (Result.m128i_i8[0] << 1) ^ (Carry * 0x87);
HW_MUL128Return(Result, Carry) ==
    [Result EXCEPT ![1] = Xor8(U8(Result[1] * 2), U8(Carry * 135))]

HW_MUL128(Input) ==
    HW_MUL128Return(HW_MUL128Loop(Input, 15), LowByte(Sar7(SChar(Input[16]))))

(***************************************************************************)
(* Modes: the counter increment of Encryptblock_CTR (and Modes::Increment, *)
(* which has the same body).  NC is the sixteen bytes of the state.  A     *)
(* write at index -1 or 16 falls outside NC and leaves NC as it is; every  *)
(* index read or written is recorded in `touched'.                         *)
(***************************************************************************)
CounterBump(c, idx) ==
    [NC |-> IF idx \in 0..15 THEN [c.NC EXCEPT ![idx + 1] = U8(c.NC[idx + 1] + 1)] ELSE c.NC,
     touched |-> c.touched \cup {idx}]

\* if (NC[probe] == 0) ++NC[target]
CounterCarry(c, probe, target) ==
    IF c.NC[probe + 1] = 0
    THEN CounterBump([NC |-> c.NC, touched |-> c.touched \cup {probe}], target)
    ELSE [NC |-> c.NC, touched |-> c.touched \cup {probe}]

RECURSIVE CounterLoop(_, _, _, _)
CounterLoop(c, Countersize, Bigendian, i) ==
    IF i >= Countersize \div 8 THEN c
    ELSE CounterLoop(CounterCarry(c, IF Bigendian THEN 15 - i ELSE i,
                                  IF Bigendian THEN 14 - i ELSE i + 1),
                     Countersize, Bigendian, i + 1)

Increment(Countersize, Bigendian, NC) ==
    CounterLoop(CounterBump([NC |-> NC, touched |-> {}], IF Bigendian THEN 15 ELSE 0),
                Countersize, Bigendian, 0)

(***************************************************************************)
(* Modes: the block functions.  Each returns the new State and the output  *)
(* block.                                                                  *)
(***************************************************************************)
Encryptblock_ECB(Rounds, Input, Keys) == Encryptblock(Rounds, Input, Keys)

Decryptblock_ECB(Rounds, Input, Keys) == Decryptblock(Rounds, Input, Keys)

\* State = Temp; return Temp;
StateIsOutput(Temp) == [State |-> Temp, Output |-> Temp]

\* State = Input; return Temp;
StateIsInput(Input, Temp) == [State |-> Input, Output |-> Temp]

Encryptblock_CBC(Rounds, State, Input, Keys) ==
    StateIsOutput(Encryptblock(Rounds, XOR(State, Input), Keys))

\* Decryptblock_CBC that keeps the recovered plaintext as the chaining state.
C10_Decryptblock_CBC_plaintext(Rounds, State, Input, Keys) ==
    StateIsOutput(XOR(State, Decryptblock(Rounds, Input, Keys)))

Decryptblock_CBC(Rounds, State, Input, Keys) ==
    StateIsInput(Input, XOR(State, Decryptblock(Rounds, Input, Keys)))

Encryptblock_CFB(Rounds, State, Input, Keys) ==
    StateIsOutput(XOR(Input, Encryptblock(Rounds, State, Keys)))

\* Decryptblock_CFB that keeps its output, the recovered plaintext, as the State.
C11_Decryptblock_CFB_output(Rounds, State, Input, Keys) ==
    StateIsOutput(XOR(Input, Encryptblock(Rounds, State, Keys)))

Decryptblock_CFB(Rounds, State, Input, Keys) ==
    StateIsInput(Input, XOR(Input, Encryptblock(Rounds, State, Keys)))

\* State = std::bit_cast<Block_t>(NC); return Temp;
StateIsCounter(c, Temp) == [State |-> BytesBlock(c.NC), Output |-> Temp, touched |-> c.touched]

Encryptblock_CTR(Rounds, Countersize, Bigendian, State, Input, Keys) ==
    StateIsCounter(Increment(Countersize, Bigendian, BlockBytes(State)),
                   XOR(Input, Encryptblock(Rounds, State, Keys)))

Decryptblock_CTR(Rounds, Countersize, Bigendian, State, Input, Keys) ==
    Encryptblock_CTR(Rounds, Countersize, Bigendian, State, Input, Keys)

Encryptblock_XEX(Rounds, State, Input, Keys, Garbage) ==
    [State |-> Mul128(State, Garbage),
     Output |-> XOR(Encryptblock(Rounds, XOR(Input, State), Keys), State)]

Decryptblock_XEX(Rounds, State, Input, Keys, Garbage) ==
    [State |-> Mul128(State, Garbage),
     Output |-> XOR(Decryptblock(Rounds, XOR(Input, State), Keys), State)]

HW_XOR(A, B) == mm_xor_si128(A, B)

HW_Encryptblock_ECB(Rounds, Input, Keys) == HW_Encryptblock(Rounds, Input, Keys)

HW_Decryptblock_ECB(Rounds, Input, Keys) == HW_Decryptblock(Rounds, Input, Keys)

HW_Encryptblock_CBC(Rounds, State, Input, Keys) ==
    StateIsOutput(HW_Encryptblock(Rounds, HW_XOR(State, Input), Keys))

HW_Decryptblock_CBC(Rounds, State, Input, Keys) ==
    StateIsInput(Input, HW_XOR(State, HW_Decryptblock(Rounds, Input, Keys)))

HW_Encryptblock_CFB(Rounds, State, Input, Keys) ==
    StateIsOutput(HW_XOR(Input, HW_Encryptblock(Rounds, State, Keys)))

HW_Decryptblock_CFB(Rounds, State, Input, Keys) ==
    StateIsInput(Input, HW_XOR(Input, HW_Encryptblock(Rounds, State, Keys)))

\* The counter is written back into the m128i_i8 of State.
HW_StateIsCounter(c, Temp) == [State |-> c.NC, Output |-> Temp, touched |-> c.touched]

HW_Encryptblock_CTR(Rounds, Countersize, Bigendian, State, Input, Keys) ==
    HW_StateIsCounter(Increment(Countersize, Bigendian, State),
                      HW_XOR(Input, HW_Encryptblock(Rounds, State, Keys)))

\* HW::Encryptblock_XEX and HW::Decryptblock_XEX take the State as a uint64_t and hand it to
\* Encryptblock, and assign Mul128(Tweak) to it.  The eight bytes are taken as the low half of
\* a zero block, as the drivers copy a sector number, and the assignment keeps the low half.
Widen64(State) == State \o ZeroBytes(8)

Narrow64(Block) == SubSeq(Block, 1, 8)

\* const auto Tweak = Encryptblock<Rounds>(State, Tweakkeys);
HW_XEXTweak(Rounds, State, Tweakkeys) == HW_Encryptblock(Rounds, Widen64(State), Tweakkeys)

\* Result = XOR(Temp, Tweak); State = Mul128(Tweak); return Result;
HW_XEXReturn(Tweak, Temp) ==
    [State |-> Narrow64(HW_Mul128(Tweak)), Output |-> HW_XOR(Temp, Tweak), Tweak |-> Tweak]

HW_EncryptXEXWith(Rounds, Input, Keys, Tweak) ==
    HW_XEXReturn(Tweak, HW_Encryptblock(Rounds, HW_XOR(Input, Tweak), Keys))

HW_DecryptXEXWith(Rounds, Input, Keys, Tweak) ==
    HW_XEXReturn(Tweak, HW_Decryptblock(Rounds, HW_XOR(Input, Tweak), Keys))

HW_Encryptblock_XEX(Rounds, State, Input, Keys, Tweakkeys) ==
    HW_EncryptXEXWith(Rounds, Input, Keys, HW_XEXTweak(Rounds, State, Tweakkeys))

HW_Decryptblock_XEX(Rounds, State, Input, Keys, Tweakkeys) ==
    HW_DecryptXEXWith(Rounds, Input, Keys, HW_XEXTweak(Rounds, State, Tweakkeys))

\* AES::Modes::Mul128 on a HW::Block_t: the carry runs from element 15 down to element 0.
RECURSIVE Modes_Mul128Loop(_, _)
Modes_Mul128Loop(r, i) ==
    IF i < 0 THEN r
    ELSE Modes_Mul128Loop(CarryOn(r.Result, i, ShiftCarry(r.Result[i + 1], r.Carry)), i - 1)

\* if (Carry) Result.m128i_i8[0] ^= 0x87;
Modes_Mul128Return(r) ==
    IF r.Carry # 0 THEN [r.Result EXCEPT ![1] = Xor8(r.Result[1], 135)] ELSE r.Result

Modes_Mul128(Input) ==
    Modes_Mul128Return(Modes_Mul128Loop([Result |-> Input, Carry |-> 0], 15))

(***************************************************************************)
(* The mode drivers AES::Modes::Unpadded and AES::Modes::Padded.  Each     *)
(* driver has a Portable branch and a HW branch with the same text; `hw'   *)
(* is the outcome of !(std::is_constant_evaluated() || !hasIntrinsics()),  *)
(* and the operators below are the names that `using namespace Portable'   *)
(* and `using namespace HW' select.                                        *)
(***************************************************************************)
Mode_t == {"AES_ECB", "AES_CBC", "AES_CFB", "AES_XEX", "AES_XTS",
           "AES_CTR_32BE", "AES_CTR_64BE", "AES_CTR_128BE",
           "AES_CTR_32LE", "AES_CTR_64LE", "AES_CTR_128LE"}

CTRModes == {"AES_CTR_32BE", "AES_CTR_64BE", "AES_CTR_128BE",
             "AES_CTR_32LE", "AES_CTR_64LE", "AES_CTR_128LE"}

CountersizeOf(Mode) ==
    IF Mode \in {"AES_CTR_32BE", "AES_CTR_32LE"} THEN 32
    ELSE IF Mode \in {"AES_CTR_64BE", "AES_CTR_64LE"} THEN 64 ELSE 128

BigendianOf(Mode) == Mode \in {"AES_CTR_32BE", "AES_CTR_64BE", "AES_CTR_128BE"}

\* The Rounds that go with a Keysize (<4, 10>, <6, 12>, <8, 14>).
RoundsOf(Keysize) == Keysize + 6

SelKeyexpansion(hw, Keysize, Key) ==
    IF hw THEN HW_Keyexpansion(Keysize, RoundsOf(Keysize), Key)
    ELSE Keyexpansion(Keysize, RoundsOf(Keysize), Key)

SelEncryptblock(hw, Keysize, Block, Keys) ==
    IF hw THEN HW_Encryptblock(RoundsOf(Keysize), Block, Keys)
    ELSE Encryptblock(RoundsOf(Keysize), Block, Keys)

SelDecryptblock(hw, Keysize, Block, Keys) ==
    IF hw THEN HW_Decryptblock(RoundsOf(Keysize), Block, Keys)
    ELSE Decryptblock(RoundsOf(Keysize), Block, Keys)

SelXOR(hw, A, B) == IF hw THEN HW_XOR(A, B) ELSE XOR(A, B)

\* A Block_t from sixteen bytes (cmp::memcpy into it, std::bit_cast) and back.
SelBlock(hw, bytes) == IF hw THEN bytes ELSE BytesBlock(bytes)

SelBytes(hw, Block) == IF hw THEN Block ELSE BlockBytes(Block)

\* Mul128(State) in a driver: Portable::Mul128 for a Portable::Block_t, and Modes::Mul128,
\* which unqualified lookup finds first in AES::Modes, for a HW::Block_t.
SelMul128(hw, State, Garbage) == IF hw THEN Modes_Mul128(State) ELSE Mul128(State, Garbage)

\* Modes::Increment<Countersize, Bigendian>(State): the returned block.
SelIncrement(hw, Mode, State) ==
    SelBlock(hw, Increment(CountersizeOf(Mode), BigendianOf(Mode), SelBytes(hw, State)).NC)

\* Block_t Block{}; cmp::memcpy(&Block, &Input[i], sizeof(Block_t)): sixteen bytes from offset i.
\* Bytes past the end of Input are not the program's: they read as `Garbage'.
InputBlock(Input, i, Garbage) ==
    Tuple([k \in 1..16 |-> IF i + k <= Len(Input) THEN Input[i + k] ELSE Garbage])

\* cmp::memcpy(&Buffer[i], Block): sixteen bytes stored at offset i.
StoreBlock(Buffer, i, bytes) ==
    SubSeq(Buffer, 1, i) \o bytes \o SubSeq(Buffer, i + 17, Len(Buffer))

\* const uint8_t Padding = 16 - (Input.size() & 15).
PaddingOf(Input) == 16 - (Len(Input) % 16)

\* The last block of Padded::Encrypt: sixteen Padding bytes, overlaid with the
\* Input.size() & 15 bytes of input that follow the last whole block.
LastBlock(Input) ==
    LET tail == Len(Input) % 16
        base == Len(Input) - (Len(Input) % 16)
    IN  Tuple([k \in 1..16 |-> IF k <= tail THEN Input[base + k] ELSE PaddingOf(Input)])

\* The State a driver starts with: the IV, or the encrypted sector number times alpha^BlockID.
\* SectorID is copied into bytes 0 .. 7 of a zero block (little-endian host).
SectorBlock(SectorID) == SectorID \o ZeroBytes(8)

RECURSIVE TweakOf(_, _, _, _)
TweakOf(hw, State, BlockID, Garbage) ==
    IF Evaluated(State) /\ BlockID = 0 THEN State
    ELSE TweakOf(hw, SelMul128(hw, State, Garbage), BlockID - 1, Garbage)

(***************************************************************************)
(* The data of the unit tests, and the other arguments the drivers take.   *)
(***************************************************************************)
AESData == <<0, 1, 2, 3, 4, 5, 6, 7, 8, 9, 10, 11, 12, 13, 14, 15>>

AESIV == <<22, 21, 126, 43, 166, 210, 174, 40, 136, 21, 247, 171, 60, 79, 207, 9>>

AES128Key == <<43, 126, 21, 22, 40, 174, 210, 166, 171, 247, 21, 136, 9, 207, 79, 60>>

AES192Key ==
    <<232, 105, 194, 12, 220, 247, 120, 166, 68, 65, 68, 98, 129, 27, 212, 177,
      29, 208, 3, 161, 50, 127, 194, 48>>

AES256Key ==
    <<136, 5, 121, 189, 124, 31, 57, 91, 173, 16, 133, 172, 193, 191, 79, 53,
      184, 167, 193, 127, 26, 0, 153, 165, 73, 59, 58, 1, 129, 176, 38, 220>>

KeyOf(Keysize) == IF Keysize = 4 THEN AES128Key ELSE IF Keysize = 6 THEN AES192Key ELSE AES256Key

\* n bytes 0, 1, 2, ... : AESData continued.
Iota(n) == Tuple([k \in 1..n |-> (k - 1) % 256])

\* The tweak key of XTS: a second key of the same size.
TweakkeyOf(Keysize) == Iota(4 * Keysize)

\* uint64_t SectorID, as its eight bytes in memory.
SectorID == <<42, 1, 0, 0, 0, 0, 0, 0>>

\* The default BlockID of the XEX drivers (1) and of the XTS drivers (0).
BlockIDOf(Mode) == IF Mode = "AES_XEX" THEN 1 ELSE 0

\* The values that a byte read outside Input, and a carry read outside a Block_t, may have.
GarbageBytes == {0, 255}

GarbageBits == {0, 1}

VARIABLES drv, ks, ctr, mul, cbc, str, cpu, box, gf, ring, buf, utf, pb, vec

vars == <<drv, ks, ctr, mul, cbc, str, cpu, box, gf, ring, buf, utf, pb, vec>>

\* The variables that the actions of one part leave alone.
notDrv == <<ks, ctr, mul, cbc, str, cpu, box, gf, ring, buf, utf, pb, vec>>

notKs == <<drv, ctr, mul, cbc, str, cpu, box, gf, ring, buf, utf, pb, vec>>

notCtr == <<drv, ks, mul, cbc, str, cpu, box, gf, ring, buf, utf, pb, vec>>

notMul == <<drv, ks, ctr, cbc, str, cpu, box, gf, ring, buf, utf, pb, vec>>

notCbc == <<drv, ks, ctr, mul, str, cpu, box, gf, ring, buf, utf, pb, vec>>

notStr == <<drv, ks, ctr, mul, cbc, cpu, box, gf, ring, buf, utf, pb, vec>>

notCpu == <<drv, ks, ctr, mul, cbc, str, box, gf, ring, buf, utf, pb, vec>>

notBox == <<drv, ks, ctr, mul, cbc, str, cpu, gf, ring, buf, utf, pb, vec>>

notGf == <<drv, ks, ctr, mul, cbc, str, cpu, box, ring, buf, utf, pb, vec>>

notRing == <<drv, ks, ctr, mul, cbc, str, cpu, box, gf, buf, utf, pb, vec>>

notBuf == <<drv, ks, ctr, mul, cbc, str, cpu, box, gf, ring, utf, pb, vec>>

notUtf == <<drv, ks, ctr, mul, cbc, str, cpu, box, gf, ring, buf, pb, vec>>

notPb == <<drv, ks, ctr, mul, cbc, str, cpu, box, gf, ring, buf, utf, vec>>

notVec == <<drv, ks, ctr, mul, cbc, str, cpu, box, gf, ring, buf, utf, pb>>

KsFields ==
    [pc |-> "off", Keysize |-> 4, Key |-> <<>>, Input |-> <<>>,
     Keys |-> <<>>, HWKeys |-> <<>>, INVKeys |-> <<>>, HWINVKeys |-> <<>>,
     Encrypted |-> <<>>, HWEncrypted |-> <<>>, Decrypted |-> <<>>, HWDecrypted |-> <<>>]

CtrFields ==
    [pc |-> "off", hw |-> FALSE, Countersize |-> 32, Bigendian |-> TRUE,
     State |-> <<>>, Before |-> <<>>, Output |-> <<>>, touched |-> {}, n |-> 0]

MulFields ==
    [pc |-> "off", Input |-> <<>>, n |-> 0,
     Portable |-> [in |-> <<>>, out |-> <<>>, touched |-> {}],
     Modes |-> [in |-> <<>>, out |-> <<>>],
     HW |-> [in |-> <<>>, out |-> <<>>], HWModes |-> [in |-> <<>>, out |-> <<>>]]

CbcFields ==
    [pc |-> "off", hw |-> FALSE, Keysize |-> 4, Keys |-> <<>>, INVKeys |-> <<>>,
     IV |-> <<>>, State |-> <<>>, Plain |-> <<>>, Cipher |-> <<>>, Decrypted |-> <<>>,
     lastInput |-> <<>>, lastOutput |-> <<>>]

DrvFields ==
    [pc |-> "off", Mode |-> "AES_ECB", Keysize |-> 4, hw |-> FALSE,
     encPadded |-> FALSE, decPadded |-> FALSE, Plain |-> <<>>, Input |-> <<>>,
     Keys |-> <<>>, State |-> <<>>, Buffer |-> <<>>, i |-> 0, Cipher |-> <<>>,
     Result |-> <<>>, status |-> "none", steps |-> 0]

StrFields ==
    [pc |-> "off", Mode |-> "AES_CFB", hw |-> FALSE, Keysize |-> 4, Keys |-> <<>>,
     INVKeys |-> <<>>, Tweakkeys |-> <<>>, IV |-> <<>>, State |-> <<>>, Plain |-> <<>>, Cipher |-> <<>>,
     Decrypted |-> <<>>, States |-> <<>>, DecStates |-> <<>>, Tweaks |-> <<>>,
     DecTweaks |-> <<>>]

CpuFields == [pc |-> "off", ECX |-> 0, probes |-> 0, calls |-> <<>>]

BoxFields == [pc |-> "off", s |-> <<>>, visited |-> <<>>, written |-> {}]

GfFields == [pc |-> "off", byte |-> 0, word |-> <<>>, fn |-> "none", out |-> <<>>]

RingFields == [pc |-> "off", N |-> 1, Head |-> 0, Size |-> 0, Storage |-> <<>>, pushed |-> <<>>]

BufFields ==
    [pc |-> "off", Data |-> <<>>, Internaliterator |-> 0, Internalsize |-> 0,
     written |-> <<>>, reads |-> <<>>,
     into |-> [Type |-> "none", Before |-> <<>>, Buffer |-> <<>>, at |-> 0, ok |-> TRUE]]

UtfFields == [pc |-> "off", points |-> <<>>, Input |-> <<>>, ASCII |-> <<>>, UTF8 |-> <<>>]

PbFields ==
    [pc |-> "off", Data |-> <<>>, Internaliterator |-> 0, Internalsize |-> 0,
     CurrentID |-> 0, Currenttype |-> 0, written |-> <<>>, reads |-> <<>>]

VecFields ==
    [pc |-> "off", Fixedsize |-> 1, sizeofT |-> 1, Capacity |-> 1, Size |-> 0,
     Static |-> <<>>, Dynamic |-> <<>>, pushed |-> <<>>, outside |-> {},
     got |-> [fn |-> "none", Index |-> 0, val |-> 0]]

\* Every part but the named one is off.
IdleBut(part) ==
    /\ IF part = "drv" THEN TRUE ELSE drv = DrvFields
    /\ IF part = "ks" THEN TRUE ELSE ks = KsFields
    /\ IF part = "ctr" THEN TRUE ELSE ctr = CtrFields
    /\ IF part = "mul" THEN TRUE ELSE mul = MulFields
    /\ IF part = "cbc" THEN TRUE ELSE cbc = CbcFields
    /\ IF part = "str" THEN TRUE ELSE str = StrFields
    /\ IF part = "cpu" THEN TRUE ELSE cpu = CpuFields
    /\ IF part = "box" THEN TRUE ELSE box = BoxFields
    /\ IF part = "gf" THEN TRUE ELSE gf = GfFields
    /\ IF part = "ring" THEN TRUE ELSE ring = RingFields
    /\ IF part = "buf" THEN TRUE ELSE buf = BufFields
    /\ IF part = "utf" THEN TRUE ELSE utf = UtfFields
    /\ IF part = "pb" THEN TRUE ELSE pb = PbFields
    /\ IF part = "vec" THEN TRUE ELSE vec = VecFields

MulGarbage(d) == IF ~d.hw /\ d.Mode \in {"AES_XEX", "AES_XTS"} THEN GarbageBits ELSE {0}

ReadGarbage(d) == IF d.i + 16 > Len(d.Input) THEN GarbageBytes ELSE {0}

\* The State a driver starts with: none (ECB), the IV, or the sector number encrypted under
\* the key (XEX) or under the expanded tweak key (XTS) and multiplied BlockID times by alpha.
InitialState(d, Keys, Garbage) ==
    IF d.Mode = "AES_ECB" THEN SelBlock(d.hw, ZeroBytes(16))
    ELSE IF d.Mode \in {"AES_XEX", "AES_XTS"}
    THEN TweakOf(d.hw,
                 SelEncryptblock(d.hw, d.Keysize, SelBlock(d.hw, SectorBlock(SectorID)),
                                 IF d.Mode = "AES_XEX"
                                 THEN Keys
                                 ELSE SelKeyexpansion(d.hw, d.Keysize, TweakkeyOf(d.Keysize))),
                 BlockIDOf(d.Mode), Garbage)
    ELSE SelBlock(d.hw, AESIV)

\* The modes whose Decrypt runs the cipher forwards, on the State.
StreamModes == {"AES_CFB"} \cup CTRModes

\* The block that a pass of Encrypt gives to Encryptblock.
EncryptInput(d, Block) ==
    IF d.Mode = "AES_ECB" THEN Block
    ELSE IF d.Mode \in StreamModes THEN d.State
    ELSE SelXOR(d.hw, Block, d.State)

\* The output block and the State after a pass, Temp being what Encryptblock returned.  The
\* last block of Padded::Encrypt leaves the State as it is.
EncryptOutput(d, Block, Temp, Garbage, last) ==
    IF d.Mode = "AES_ECB" THEN [Output |-> Temp, State |-> d.State]
    ELSE IF d.Mode = "AES_CBC" THEN [Output |-> Temp, State |-> IF last THEN d.State ELSE Temp]
    ELSE IF d.Mode \in StreamModes
    THEN [Output |-> SelXOR(d.hw, Block, Temp),
          State |-> IF last THEN d.State
                    ELSE IF d.Mode = "AES_CFB" THEN SelXOR(d.hw, Block, Temp)
                    ELSE SelIncrement(d.hw, d.Mode, d.State)]
    ELSE [Output |-> SelXOR(d.hw, Temp, d.State),
          State |-> IF last THEN d.State ELSE SelMul128(d.hw, d.State, Garbage)]

\* One pass of the loop of Encrypt, and the last block of Padded::Encrypt: the output block
\* and the State afterwards.
EncryptStep(d, Block, Garbage, last) ==
    EncryptOutput(d, Block,
                  SelEncryptblock(d.hw, d.Keysize, EncryptInput(d, Block), d.Keys),
                  Garbage, last)

\* The output block and the State after a pass of Decrypt, Temp being what Decryptblock (in
\* CFB and CTR: Encryptblock) returned.
DecryptOutput(d, Block, Temp, Garbage) ==
    IF d.Mode = "AES_ECB" THEN [Output |-> Temp, State |-> d.State]
    ELSE IF d.Mode = "AES_CBC" THEN [Output |-> SelXOR(d.hw, d.State, Temp), State |-> Block]
    ELSE IF d.Mode \in StreamModes
    THEN [Output |-> SelXOR(d.hw, Block, Temp),
          State |-> IF d.Mode = "AES_CFB" THEN Block ELSE SelIncrement(d.hw, d.Mode, d.State)]
    ELSE [Output |-> SelXOR(d.hw, Temp, d.State), State |-> SelMul128(d.hw, d.State, Garbage)]

\* One pass of the loop of Decrypt.
DecryptStep(d, Block, Garbage) ==
    DecryptOutput(d, Block,
                  IF d.Mode \in StreamModes
                  THEN SelEncryptblock(d.hw, d.Keysize, d.State, d.Keys)
                  ELSE SelDecryptblock(d.hw, d.Keysize,
                                       IF d.Mode \in {"AES_ECB", "AES_CBC"}
                                       THEN Block
                                       ELSE SelXOR(d.hw, Block, d.State),
                                       d.Keys),
                  Garbage)

\* The driver at the head of its loop: the key schedule, the State and the Buffer.
AtLoop(d, pc, Input, Keys, Garbage, size, steps) ==
    [d EXCEPT !.pc = pc, !.Input = Input, !.Keys = Keys,
              !.State = InitialState(d, Keys, Garbage),
              !.Buffer = ZeroBytes(size), !.i = 0, !.steps = steps]

\* The driver after a pass that returned r: the output block stored at offset i.
AfterPass(d, r, steps) ==
    [d EXCEPT !.Buffer = StoreBlock(d.Buffer, d.i, SelBytes(d.hw, r.Output)),
              !.State = r.State, !.i = d.i + 16, !.steps = steps]

\* Encrypt returns Buffer.
Encrypted(d, Buffer, steps) ==
    [d EXCEPT !.pc = "Decrypt", !.Buffer = Buffer, !.Cipher = Buffer, !.steps = steps]

\* Encrypt up to its loop: the key schedule, the State and the Buffer.
EncryptBegin ==
    /\ drv.pc = "Encrypt"
    /\ \E Garbage \in MulGarbage(drv) :
          drv' = AtLoop(drv, "EncryptLoop", drv.Plain,
                        SelKeyexpansion(drv.hw, drv.Keysize, KeyOf(drv.Keysize)), Garbage,
                        Len(drv.Plain) + (IF drv.encPadded THEN PaddingOf(drv.Plain) ELSE 0), 0)
    /\ UNCHANGED notDrv

\* for (size_t i = 0; i < Input.size(); i += 16): one pass.
EncryptBlock ==
    /\ drv.pc = "EncryptLoop"
    /\ drv.i < Len(drv.Input)
    /\ \E Garbage \in MulGarbage(drv), Fill \in ReadGarbage(drv) :
          drv' = AfterPass(drv,
                           EncryptStep(drv, SelBlock(drv.hw, InputBlock(drv.Input, drv.i, Fill)),
                                       Garbage, FALSE),
                           drv.steps + 1)
    /\ UNCHANGED notDrv

\* After the loop: the last block of Padded::Encrypt (the XTS driver has none), and the return.
EncryptEnd ==
    /\ drv.pc = "EncryptLoop"
    /\ drv.i >= Len(drv.Input)
    /\ IF drv.encPadded /\ drv.Mode # "AES_XTS"
       THEN drv' = Encrypted(drv,
                       StoreBlock(drv.Buffer, Len(drv.Input) - (Len(drv.Input) % 16),
                                  SelBytes(drv.hw,
                                           EncryptStep(drv, SelBlock(drv.hw, LastBlock(drv.Input)),
                                                       0, TRUE).Output)),
                       drv.steps + 1)
       ELSE drv' = Encrypted(drv, drv.Buffer, drv.steps)
    /\ UNCHANGED notDrv

\* Decrypt up to its loop.  Padded::Decrypt asserts (Input.size() & 15) == 0 (not for XTS).
DecryptBegin ==
    /\ drv.pc = "Decrypt"
    /\ (drv.decPadded /\ drv.Mode # "AES_XTS") => Len(drv.Cipher) % 16 = 0
    /\ \E Garbage \in MulGarbage(drv) :
          drv' = AtLoop(drv, "DecryptLoop", drv.Cipher,
                        SelKeyexpansion(drv.hw, drv.Keysize, KeyOf(drv.Keysize)), Garbage,
                        Len(drv.Cipher), drv.steps)
    /\ UNCHANGED notDrv

DecryptBlock ==
    /\ drv.pc = "DecryptLoop"
    /\ drv.i < Len(drv.Input)
    /\ \E Garbage \in MulGarbage(drv) :
          drv' = AfterPass(drv,
                           DecryptStep(drv, SelBlock(drv.hw, InputBlock(drv.Input, drv.i, 0)),
                                       Garbage),
                           drv.steps)
    /\ UNCHANGED notDrv

\* What Buffer.back() may yield on an empty Buffer.
BackOfEmpty == {0, 1, 16}

\* Padded::Decrypt ends with Buffer.resize(Buffer.size() - Buffer.back()): the XTS driver and
\* the HW branch of the XEX driver return the Buffer as it is.
RemovesPadding(d) ==
    d.decPadded /\ d.Mode # "AES_XTS" /\ ~(d.Mode = "AES_XEX" /\ d.hw)

\* The subtraction is in size_t: below zero it wraps to a size no vector can have, and resize
\* throws std::length_error.
Resize(d, back) ==
    IF back <= Len(d.Buffer)
    THEN [d EXCEPT !.pc = "Done", !.status = "returned",
                   !.Result = SubSeq(d.Buffer, 1, Len(d.Buffer) - back)]
    ELSE [d EXCEPT !.pc = "Done", !.status = "length_error", !.Result = <<>>]

DecryptEnd ==
    /\ drv.pc = "DecryptLoop"
    /\ drv.i >= Len(drv.Input)
    /\ IF RemovesPadding(drv)
       THEN \E back \in (IF Len(drv.Buffer) = 0 THEN BackOfEmpty ELSE {drv.Buffer[Len(drv.Buffer)]}) :
               drv' = Resize(drv, back)
       ELSE drv' = [drv EXCEPT !.pc = "Done", !.status = "returned", !.Result = drv.Buffer]
    /\ UNCHANGED notDrv

NextDriver ==
    \/ EncryptBegin
    \/ EncryptBlock
    \/ EncryptEnd
    \/ DecryptBegin
    \/ DecryptBlock
    \/ DecryptEnd

\* The calls Encrypt(Plain) then Decrypt(...) of one configuration.
Call(Mode, Keysize, hw, encPadded, decPadded, Plain) ==
    [DrvFields EXCEPT !.pc = "Encrypt", !.Mode = Mode, !.Keysize = Keysize, !.hw = hw,
                      !.encPadded = encPadded, !.decPadded = decPadded, !.Plain = Plain]

\* The largest number of whole blocks in a plaintext.
MaxBlocks == 2

UnpaddedPlains == {Iota(16 * n) : n \in 0..MaxBlocks}

InitUnpadded ==
    /\ IdleBut("drv")
    /\ drv \in {Call(Mode, Keysize, hw, FALSE, FALSE, Plain) :
                Mode \in Mode_t, Keysize \in {4, 6, 8}, hw \in BOOLEAN, Plain \in UnpaddedPlains}

SpecUnpadded == InitUnpadded /\ [][NextDriver]_vars

\* C1: for every key size and every mode, Unpadded::Decrypt of the output of
\* Unpadded::Encrypt, under the same key and the same IV or sector number, returns exactly
\* the plaintext, for every plaintext of whole blocks.
C1_RoundTrip ==
    (drv.pc = "Done" /\ ~drv.encPadded /\ ~drv.decPadded)
        => (drv.status = "returned" /\ drv.Result = drv.Plain)

\* C8 is checked on plaintexts of n whole blocks and of n whole blocks and PartialLength
\* more bytes, n < MaxBlocks.
PartialLength == 5

PaddedPlains == {Iota(16 * n + r) : n \in 0..(MaxBlocks - 1), r \in {0, PartialLength}}

InitPadded ==
    /\ IdleBut("drv")
    /\ drv \in {Call(Mode, Keysize, hw, TRUE, TRUE, Plain) :
                Mode \in Mode_t, Keysize \in {4, 6, 8}, hw \in BOOLEAN, Plain \in PaddedPlains}

SpecPadded == InitPadded /\ [][NextDriver]_vars

\* C8: for the padded drivers, in every mode and key size, Decrypt(Encrypt(P)) returns exactly
\* P for every length of P, multiples of 16 or not; the empty plaintext encrypts to exactly
\* one block and decrypts to the empty output.
C8_PaddedRoundTrip ==
    /\ (drv.pc = "Done" /\ drv.encPadded /\ drv.decPadded)
          => (drv.status = "returned" /\ drv.Result = drv.Plain)
    /\ (drv.pc \in {"Decrypt", "DecryptLoop", "Done"} /\ drv.encPadded /\ Len(drv.Plain) = 0)
          => Len(drv.Cipher) = 16

\* The plaintexts whose last byte Padded::Decrypt will read as the padding count: whole blocks
\* ending in each of these bytes, and the empty plaintext.
LastBytes == {0, 1, 16, 17, 32, 33, 255}

EndingIn(n, b) == [Iota(16 * n) EXCEPT ![16 * n] = b]

StripPlains == {<<>>} \cup {EndingIn(n, b) : n \in 1..MaxBlocks, b \in LastBytes}

\* Padded::Decrypt on the output of Unpadded::Encrypt: in CFB and CTR what is decrypted is the
\* plaintext, so that its last byte is the one chosen.
InitStrip ==
    /\ IdleBut("drv")
    /\ drv \in {Call(Mode, Keysize, hw, FALSE, TRUE, Plain) :
                Mode \in {"AES_CFB", "AES_CTR_32BE", "AES_ECB"}, Keysize \in {4, 6, 8},
                hw \in BOOLEAN, Plain \in StripPlains}

SpecStrip == InitStrip /\ [][NextDriver]_vars

\* The last decrypted byte is a padding count: 1 .. 16 and no more than what was decrypted.
ValidPadding(d) ==
    /\ Len(d.Buffer) > 0
    /\ d.Buffer[Len(d.Buffer)] \in 1..16
    /\ d.Buffer[Len(d.Buffer)] <= Len(d.Buffer)

\* C9: Padded::Decrypt strips k bytes only when the last decrypted byte k is in 1 .. 16 and
\* no more than the output length; for any other last byte, and for the empty ciphertext, the
\* input is rejected and no plaintext is returned, the length never going below zero.
C9_PaddingChecked ==
    (drv.pc = "Done" /\ drv.decPadded)
        => IF ValidPadding(drv)
           THEN /\ drv.status = "returned"
                /\ drv.Result = SubSeq(drv.Buffer, 1, Len(drv.Buffer) - drv.Buffer[Len(drv.Buffer)])
           ELSE drv.status = "rejected"

(***************************************************************************)
(* The key schedule and the block transform, through both paths: for one   *)
(* key and one input block, Keyexpansion, INVKeyexpansion, Encryptblock    *)
(* and Decryptblock of Portable and then of HW.                            *)
(***************************************************************************)
\* The bytes of a schedule in memory.
RECURSIVE ScheduleBytes(_)
ScheduleBytes(Keys) ==
    IF Len(Keys) = 0 THEN <<>>
    ELSE ScheduleBytes(SubSeq(Keys, 1, Len(Keys) - 1)) \o BlockBytes(Keys[Len(Keys)])

RECURSIVE HW_ScheduleBytes(_)
HW_ScheduleBytes(Keys) ==
    IF Len(Keys) = 0 THEN <<>>
    ELSE HW_ScheduleBytes(SubSeq(Keys, 1, Len(Keys) - 1)) \o Keys[Len(Keys)]

PortableKeyexpansion ==
    /\ ks.pc = "Keyexpansion"
    /\ ks' = [ks EXCEPT !.pc = "HW::Keyexpansion",
                        !.Keys = Keyexpansion(ks.Keysize, RoundsOf(ks.Keysize), ks.Key)]
    /\ UNCHANGED notKs

HWKeyexpansion ==
    /\ ks.pc = "HW::Keyexpansion"
    /\ ks' = [ks EXCEPT !.pc = "INVKeyexpansion",
                        !.HWKeys = HW_Keyexpansion(ks.Keysize, RoundsOf(ks.Keysize), ks.Key)]
    /\ UNCHANGED notKs

PortableINVKeyexpansion ==
    /\ ks.pc = "INVKeyexpansion"
    /\ ks' = [ks EXCEPT !.pc = "HW::INVKeyexpansion",
                        !.INVKeys = INVKeyexpansion(ks.Keysize, RoundsOf(ks.Keysize), ks.Key)]
    /\ UNCHANGED notKs

HWINVKeyexpansion ==
    /\ ks.pc = "HW::INVKeyexpansion"
    /\ ks' = [ks EXCEPT !.pc = "Encryptblock",
                        !.HWINVKeys = HW_INVKeyexpansion(ks.Keysize, RoundsOf(ks.Keysize), ks.Key)]
    /\ UNCHANGED notKs

PortableEncryptblock ==
    /\ ks.pc = "Encryptblock"
    /\ ks' = [ks EXCEPT !.pc = "HW::Encryptblock",
                        !.Encrypted = BlockBytes(Encryptblock_ECB(RoundsOf(ks.Keysize),
                                                                   BytesBlock(ks.Input), ks.Keys))]
    /\ UNCHANGED notKs

HWEncryptblock ==
    /\ ks.pc = "HW::Encryptblock"
    /\ ks' = [ks EXCEPT !.pc = "Decryptblock",
                        !.HWEncrypted = HW_Encryptblock_ECB(RoundsOf(ks.Keysize), ks.Input, ks.HWKeys)]
    /\ UNCHANGED notKs

PortableDecryptblock ==
    /\ ks.pc = "Decryptblock"
    /\ ks' = [ks EXCEPT !.pc = "HW::Decryptblock",
                        !.Decrypted = BlockBytes(Decryptblock_ECB(RoundsOf(ks.Keysize),
                                                                   BytesBlock(ks.Input), ks.INVKeys))]
    /\ UNCHANGED notKs

HWDecryptblock ==
    /\ ks.pc = "HW::Decryptblock"
    /\ ks' = [ks EXCEPT !.pc = "Done",
                        !.HWDecrypted = HW_Decryptblock_ECB(RoundsOf(ks.Keysize), ks.Input, ks.HWINVKeys)]
    /\ UNCHANGED notKs

NextKeys ==
    \/ PortableKeyexpansion
    \/ HWKeyexpansion
    \/ PortableINVKeyexpansion
    \/ HWINVKeyexpansion
    \/ PortableEncryptblock
    \/ HWEncryptblock
    \/ PortableDecryptblock
    \/ HWDecryptblock

\* The plaintext, and the three ciphertexts, of the examples of FIPS-197 appendix C.
FIPSPlain == <<0, 17, 34, 51, 68, 85, 102, 119, 136, 153, 170, 187, 204, 221, 238, 255>>

FIPSCipher(Keysize) ==
    IF Keysize = 4
    THEN <<105, 196, 224, 216, 106, 123, 4, 48, 216, 205, 183, 128, 112, 180, 197, 90>>
    ELSE IF Keysize = 6
    THEN <<221, 169, 124, 164, 134, 76, 223, 224, 110, 175, 112, 160, 236, 13, 113, 145>>
    ELSE <<142, 162, 183, 202, 81, 103, 69, 191, 234, 252, 73, 144, 75, 73, 96, 137>>

RECURSIVE Fill(_, _)
Fill(n, b) == IF n = 0 THEN <<>> ELSE Append(Fill(n - 1, b), b)

\* The keys and the blocks that are tried.
KeyChoices(Keysize) ==
    {Iota(4 * Keysize), KeyOf(Keysize), Fill(4 * Keysize, 0), Fill(4 * Keysize, 255)}

BlockChoices ==
    {FIPSPlain, AESData, AESIV, Fill(16, 0), Fill(16, 255)} \cup {FIPSCipher(n) : n \in {4, 6, 8}}

InitKeys ==
    /\ IdleBut("ks")
    /\ \E Keysize \in {4, 6, 8} : \E Key \in KeyChoices(Keysize), Input \in BlockChoices :
          ks = [KsFields EXCEPT !.pc = "Keyexpansion", !.Keysize = Keysize,
                                !.Key = Key, !.Input = Input]

SpecKeys == InitKeys /\ [][NextKeys]_vars

\* C2: for every key of each size and every input block, the schedule, the inverse schedule,
\* the encrypted block and the decrypted block of the hardware path are byte for byte those
\* of the portable path.
C2_PathsAgree ==
    /\ Len(ks.HWKeys) > 0 => HW_ScheduleBytes(ks.HWKeys) = ScheduleBytes(ks.Keys)
    /\ Len(ks.HWINVKeys) > 0 => HW_ScheduleBytes(ks.HWINVKeys) = ScheduleBytes(ks.INVKeys)
    /\ Len(ks.HWEncrypted) > 0 => ks.HWEncrypted = ks.Encrypted
    /\ Len(ks.HWDecrypted) > 0 => ks.HWDecrypted = ks.Decrypted

\* Both paths have derived both schedules of a 256-bit key and transformed a block both ways.
C2_Witness ==
    /\ ks.pc = "Done"
    /\ ks.Keysize = 8
    /\ ks.Key = AES256Key
    /\ Len(ks.HWKeys) = 15 /\ Len(ks.Keys) = 15
    /\ Len(ks.HWEncrypted) = 16 /\ ks.HWEncrypted = ks.Encrypted
    /\ Len(ks.HWDecrypted) = 16 /\ ks.HWDecrypted = ks.Decrypted
    /\ ks.Encrypted # ks.Input

\* C3: the plaintext 00112233445566778899aabbccddeeff under the keys 00 01 .. 0f,
\* 00 01 .. 17 and 00 01 .. 1f encrypts, in ECB, to the ciphertexts FIPS-197 publishes.
C3_FIPSVectors ==
    (ks.Key = Iota(4 * ks.Keysize) /\ ks.Input = FIPSPlain)
        => /\ Len(ks.Encrypted) > 0 => ks.Encrypted = FIPSCipher(ks.Keysize)
           /\ Len(ks.HWEncrypted) > 0 => ks.HWEncrypted = FIPSCipher(ks.Keysize)

\* The recurrence of FIPS-197 section 5.2 on the words of a schedule.
RECURSIVE WordsOf(_)
WordsOf(bytes) ==
    IF Len(bytes) = 0 THEN <<>>
    ELSE Append(WordsOf(SubSeq(bytes, 1, Len(bytes) - 4)),
                SubSeq(bytes, Len(bytes) - 3, Len(bytes)))

RotWord(w) == <<w[2], w[3], w[4], w[1]>>

SubWord(w) == <<RefSBox[w[1] + 1], RefSBox[w[2] + 1], RefSBox[w[3] + 1], RefSBox[w[4] + 1]>>

RECURSIVE Rcon(_)
Rcon(j) == IF j <= 1 THEN 1 ELSE GFDouble(Rcon(j - 1))

XorWord(a, b) == <<Xor8(a[1], b[1]), Xor8(a[2], b[2]), Xor8(a[3], b[3]), Xor8(a[4], b[4])>>

FIPSTemp(prev, i, Nk) ==
    IF i % Nk = 0 THEN XorWord(SubWord(RotWord(prev)), <<Rcon(i \div Nk), 0, 0, 0>>)
    ELSE IF Nk = 8 /\ i % 8 = 4 THEN SubWord(prev)
    ELSE prev

FollowsRecurrence(bytes, Key, Nk) ==
    LET w == WordsOf(bytes)
    IN  /\ SubSeq(bytes, 1, 4 * Nk) = Key
        /\ \A i \in Nk..(Len(w) - 1) : w[i + 1] = XorWord(w[i + 1 - Nk], FIPSTemp(w[i], i, Nk))

\* C4: for Nk in {4, 6, 8} the words 0 .. Nk-1 of the forward schedule are the key, and every
\* later word i is word[i-Nk] XOR t, with t = SubWord(RotWord(word[i-1])) XOR Rcon when
\* i mod Nk = 0, SubWord(word[i-1]) when Nk = 8 and i mod 8 = 4, and word[i-1] otherwise:
\* for all 4 * (Rounds + 1) words, those of AES-192 included.
C4_Recurrence ==
    /\ Len(ks.Keys) > 0 => FollowsRecurrence(ScheduleBytes(ks.Keys), ks.Key, ks.Keysize)
    /\ Len(ks.HWKeys) > 0 => FollowsRecurrence(HW_ScheduleBytes(ks.HWKeys), ks.Key, ks.Keysize)

(***************************************************************************)
(* The CTR block function, step after step on one state.                   *)
(***************************************************************************)
\* A schedule for the block functions: that of the unit tests' AES-128 key.
CTRKeys == Keyexpansion(4, 10, AES128Key)

HW_CTRKeys == HW_Keyexpansion(4, 10, AES128Key)

\* The most steps taken on one state.
MaxSteps == 2

PortableEncryptblockCTR ==
    /\ ctr.pc = "run" /\ ~ctr.hw /\ ctr.n < MaxSteps
    /\ LET r == Encryptblock_CTR(10, ctr.Countersize, ctr.Bigendian,
                                 BytesBlock(ctr.State), BytesBlock(AESData), CTRKeys)
       IN  ctr' = [ctr EXCEPT !.State = BlockBytes(r.State), !.Before = ctr.State,
                              !.Output = BlockBytes(r.Output), !.touched = r.touched,
                              !.n = ctr.n + 1]
    /\ UNCHANGED notCtr

HWEncryptblockCTR ==
    /\ ctr.pc = "run" /\ ctr.hw /\ ctr.n < MaxSteps
    /\ LET r == HW_Encryptblock_CTR(10, ctr.Countersize, ctr.Bigendian,
                                    ctr.State, AESData, HW_CTRKeys)
       IN  ctr' = [ctr EXCEPT !.State = r.State, !.Before = ctr.State,
                              !.Output = r.Output, !.touched = r.touched, !.n = ctr.n + 1]
    /\ UNCHANGED notCtr

NextCTR ==
    \/ PortableEncryptblockCTR
    \/ HWEncryptblockCTR

\* The indices of the counter field, and a state from a nonce part and a field.
Field(Countersize, Bigendian) ==
    IF Bigendian THEN (16 - Countersize \div 8)..15 ELSE 0..(Countersize \div 8 - 1)

WithField(Countersize, Bigendian, nonce, value) ==
    Tuple([k \in 1..16 |-> IF (k - 1) \in Field(Countersize, Bigendian) THEN value ELSE nonce[k]])

\* The least significant byte of the field.
LowIndex(Countersize, Bigendian) == IF Bigendian THEN 15 ELSE 0

CounterStates(Countersize, Bigendian) ==
    {AESIV, FIPSPlain, Fill(16, 0), Fill(16, 255),
     WithField(Countersize, Bigendian, AESIV, 255),
     WithField(Countersize, Bigendian, AESIV, 0),
     [WithField(Countersize, Bigendian, AESIV, 0)
         EXCEPT ![LowIndex(Countersize, Bigendian) + 1] = 255],
     [WithField(Countersize, Bigendian, AESIV, 255)
         EXCEPT ![LowIndex(Countersize, Bigendian) + 1] = 254]}

InitCTR ==
    /\ IdleBut("ctr")
    /\ \E Countersize \in {32, 64, 128}, Bigendian \in BOOLEAN, hw \in BOOLEAN :
          \E State \in CounterStates(Countersize, Bigendian) :
             ctr = [CtrFields EXCEPT !.pc = "run", !.hw = hw, !.Countersize = Countersize,
                                     !.Bigendian = Bigendian, !.State = State]

SpecCTR == InitCTR /\ [][NextCTR]_vars

AllOnes(c) == \A k \in Field(c.Countersize, c.Bigendian) : c.Before[k + 1] = 255

\* C5: a step on a state whose 32-bit big-endian counter is 0xFFFFFFFF leaves bytes 12..15
\* equal to 00 00 00 00 and bytes 0..11 as they were; the same for the 64-bit width and for
\* the little-endian counters at their all-ones value.
C5_Wraparound ==
    (ctr.n > 0 /\ ctr.Countersize \in {32, 64} /\ AllOnes(ctr))
        => \A k \in 0..15 :
              ctr.State[k + 1] = IF k \in Field(ctr.Countersize, ctr.Bigendian)
                                 THEN 0 ELSE ctr.Before[k + 1]

\* C6: for every state, every counter width and either endianness, one CTR block step changes
\* only bytes of the counter field: every byte outside the field is the same before and after.
C6_Frame ==
    ctr.n > 0
        => \A k \in (0..15) \ Field(ctr.Countersize, ctr.Bigendian) :
              ctr.State[k + 1] = ctr.Before[k + 1]

(***************************************************************************)
(* The multiplications by alpha of the portable path, on a sequence of     *)
(* tweaks: Portable::Mul128 and Modes::MUL128 on each tweak, the next      *)
(* tweak being the one Modes::MUL128 returns.                              *)
(***************************************************************************)
\* The most tweaks that follow the first.
MaxDoublings == 4

PortableMul128 ==
    /\ mul.pc = "Mul128" /\ mul.n < MaxDoublings
    /\ \E Garbage \in GarbageBits :
          mul' = [mul EXCEPT !.pc = "MUL128",
                             !.Portable = [in |-> mul.Input,
                                           out |-> BlockBytes(Mul128(BytesBlock(mul.Input), Garbage)),
                                           touched |-> Mul128Indices]]
    /\ UNCHANGED notMul

ModesMUL128 ==
    /\ mul.pc = "MUL128" /\ mul.n < MaxDoublings
    /\ LET Result == BlockBytes(MUL128(BytesBlock(mul.Input)))
       IN  mul' = [mul EXCEPT !.pc = "Mul128", !.Modes = [in |-> mul.Input, out |-> Result],
                              !.Input = Result, !.n = mul.n + 1]
    /\ UNCHANGED notMul

NextMul ==
    \/ PortableMul128
    \/ ModesMUL128

TweakChoices ==
    {AESIV, AESData, FIPSPlain, Fill(16, 0), Fill(16, 255),
     [Fill(16, 0) EXCEPT ![1] = 1], [Fill(16, 0) EXCEPT ![2] = 1],
     [Fill(16, 0) EXCEPT ![1] = 128], [Fill(16, 0) EXCEPT ![16] = 128],
     [Fill(16, 0) EXCEPT ![4] = 128], [Fill(16, 0) EXCEPT ![5] = 1]}
    \cup {FIPSCipher(n) : n \in {4, 6, 8}}

InitMul ==
    /\ IdleBut("mul")
    /\ \E Input \in TweakChoices : mul = [MulFields EXCEPT !.pc = "Mul128", !.Input = Input]

SpecMul == InitMul /\ [][NextMul]_vars

\* 2 * x mod 2^128, XOR 0x87 when bit 127 of x is set, on the little-endian bytes of x.
Alpha(x) ==
    Tuple([k \in 1..16 |-> IF k = 1
                            THEN Xor8((x[1] * 2) % 256, IF x[16] >= 128 THEN 135 ELSE 0)
                            ELSE ((x[k] * 2) % 256) + (x[k - 1] \div 128)])

\* C7: Portable::Mul128 and Modes::MUL128 each map a tweak x, read as a 128-bit little-endian
\* integer, to 2 * x mod 2^128, XOR 0x87 when bit 127 of x was set, and access only the
\* sixteen bytes (the four words) of the block.
C7_Alpha ==
    /\ Len(mul.Modes.in) > 0 => mul.Modes.out = Alpha(mul.Modes.in)
    /\ Len(mul.Portable.in) > 0 =>
          /\ mul.Portable.out = Alpha(mul.Portable.in)
          /\ mul.Portable.touched \subseteq 0..3

(***************************************************************************)
(* The CBC block functions on a stream: Encryptblock_CBC on each block of  *)
(* the plaintext with the State starting as the IV, then Decryptblock_CBC  *)
(* on each block of the ciphertext with the State starting as the IV again *)
(* and the round keys of INVKeyexpansion.                                  *)
(***************************************************************************)
PortableEncryptblockCBC ==
    /\ cbc.pc = "Encrypt" /\ ~cbc.hw /\ Len(cbc.Cipher) < Len(cbc.Plain)
    /\ LET Input == cbc.Plain[Len(cbc.Cipher) + 1]
           r == Encryptblock_CBC(RoundsOf(cbc.Keysize), BytesBlock(cbc.State),
                                 BytesBlock(Input), cbc.Keys)
       IN  cbc' = [cbc EXCEPT !.State = BlockBytes(r.State),
                              !.Cipher = Append(cbc.Cipher, BlockBytes(r.Output)),
                              !.lastInput = Input, !.lastOutput = BlockBytes(r.Output)]
    /\ UNCHANGED notCbc

HWEncryptblockCBC ==
    /\ cbc.pc = "Encrypt" /\ cbc.hw /\ Len(cbc.Cipher) < Len(cbc.Plain)
    /\ LET Input == cbc.Plain[Len(cbc.Cipher) + 1]
           r == HW_Encryptblock_CBC(RoundsOf(cbc.Keysize), cbc.State, Input, cbc.Keys)
       IN  cbc' = [cbc EXCEPT !.State = r.State, !.Cipher = Append(cbc.Cipher, r.Output),
                              !.lastInput = Input, !.lastOutput = r.Output]
    /\ UNCHANGED notCbc

\* The caller turns to decryption: the State is the IV again.
BeginDecryption ==
    /\ cbc.pc = "Encrypt" /\ Len(cbc.Cipher) = Len(cbc.Plain)
    /\ cbc' = [cbc EXCEPT !.pc = "Decrypt", !.State = cbc.IV]
    /\ UNCHANGED notCbc

PortableDecryptblockCBC ==
    /\ cbc.pc = "Decrypt" /\ ~cbc.hw /\ Len(cbc.Decrypted) < Len(cbc.Cipher)
    /\ LET Input == cbc.Cipher[Len(cbc.Decrypted) + 1]
           r == Decryptblock_CBC(RoundsOf(cbc.Keysize), BytesBlock(cbc.State),
                                 BytesBlock(Input), cbc.INVKeys)
       IN  cbc' = [cbc EXCEPT !.State = BlockBytes(r.State),
                              !.Decrypted = Append(cbc.Decrypted, BlockBytes(r.Output)),
                              !.lastInput = Input, !.lastOutput = BlockBytes(r.Output)]
    /\ UNCHANGED notCbc

HWDecryptblockCBC ==
    /\ cbc.pc = "Decrypt" /\ cbc.hw /\ Len(cbc.Decrypted) < Len(cbc.Cipher)
    /\ LET Input == cbc.Cipher[Len(cbc.Decrypted) + 1]
           r == HW_Decryptblock_CBC(RoundsOf(cbc.Keysize), cbc.State, Input, cbc.INVKeys)
       IN  cbc' = [cbc EXCEPT !.State = r.State, !.Decrypted = Append(cbc.Decrypted, r.Output),
                              !.lastInput = Input, !.lastOutput = r.Output]
    /\ UNCHANGED notCbc

NextCBC ==
    \/ PortableEncryptblockCBC
    \/ HWEncryptblockCBC
    \/ BeginDecryption
    \/ PortableDecryptblockCBC
    \/ HWDecryptblockCBC

\* The streams of one to MaxBlocks blocks.
RECURSIVE Streams(_)
Streams(n) ==
    IF n = 0 THEN {<<>>}
    ELSE {Append(st, b) : st \in Streams(n - 1), b \in {AESData, FIPSPlain, Fill(16, 0)}}

StreamChoices == UNION {Streams(n) : n \in 1..MaxBlocks}

InitCBC ==
    /\ IdleBut("cbc")
    /\ \E hw \in BOOLEAN, Keysize \in {4, 6, 8}, Plain \in StreamChoices :
          cbc = [CbcFields EXCEPT
                    !.pc = "Encrypt", !.hw = hw, !.Keysize = Keysize, !.Plain = Plain,
                    !.IV = AESIV, !.State = AESIV,
                    !.Keys = SelKeyexpansion(hw, Keysize, KeyOf(Keysize)),
                    !.INVKeys = IF hw
                                THEN HW_INVKeyexpansion(Keysize, RoundsOf(Keysize), KeyOf(Keysize))
                                ELSE INVKeyexpansion(Keysize, RoundsOf(Keysize), KeyOf(Keysize))]

SpecCBC == InitCBC /\ [][NextCBC]_vars

\* The block that block i of a stream is chained with: the IV, or ciphertext block i - 1.
ChainedWith(c, i) == IF i = 1 THEN c.IV ELSE c.Cipher[i - 1]

\* C10: in CBC the chaining state after an encrypt step is the ciphertext block just
\* produced, and after a decrypt step the ciphertext block just consumed, so that block i is
\* chained with ciphertext block i - 1 (the IV for the first) in both directions.
C10_Chaining ==
    /\ (cbc.pc = "Encrypt" /\ Len(cbc.Cipher) > 0)
          => /\ cbc.State = cbc.lastOutput
             /\ cbc.State = cbc.Cipher[Len(cbc.Cipher)]
    /\ (cbc.pc = "Decrypt" /\ Len(cbc.Decrypted) > 0)
          => /\ cbc.State = cbc.lastInput
             /\ cbc.State = cbc.Cipher[Len(cbc.Decrypted)]
    /\ \A i \in 1..Len(cbc.Cipher) :
          cbc.Cipher[i] =
             SelBytes(cbc.hw, SelEncryptblock(cbc.hw, cbc.Keysize,
                         SelBlock(cbc.hw, mm_xor_si128(cbc.Plain[i], ChainedWith(cbc, i))), cbc.Keys))
    /\ \A i \in 1..Len(cbc.Decrypted) : cbc.Decrypted[i] = cbc.Plain[i]

\* Two blocks have been encrypted and decrypted again; the state is the second ciphertext
\* block, which is not the plaintext recovered from it.
C10_Witness ==
    /\ cbc.pc = "Decrypt"
    /\ Len(cbc.Plain) = 2 /\ Len(cbc.Decrypted) = 2
    /\ cbc.State = cbc.Cipher[2]
    /\ cbc.State # cbc.Decrypted[2]
    /\ cbc.Decrypted = cbc.Plain

(***************************************************************************)
(* The CFB and CTR block functions on a stream: the encrypting function on *)
(* each block of the plaintext, then the decrypting function on each block *)
(* of the ciphertext with the State as it was at the start and the same    *)
(* (forward) round keys.  HW::Decryptblock_CTR names Encryptblock_CTR with *)
(* one template argument of its three and cannot be instantiated, so the   *)
(* CTR streams run the Portable functions.                                 *)
(***************************************************************************)
\* A result of a block function with its blocks as bytes.
AsBytes(hw, r) == [State |-> SelBytes(hw, r.State), Output |-> SelBytes(hw, r.Output)]

\* The stream after the encrypting function returned r.
StreamEncrypted(st, r) ==
    [st EXCEPT !.State = r.State, !.Cipher = Append(st.Cipher, r.Output),
               !.States = Append(st.States, st.State)]

\* The stream after the decrypting function returned r.
StreamDecrypted(st, r) ==
    [st EXCEPT !.State = r.State, !.Decrypted = Append(st.Decrypted, r.Output),
               !.DecStates = Append(st.DecStates, st.State)]

StreamEncryptblockCFB ==
    /\ str.pc = "Encrypt" /\ str.Mode = "AES_CFB" /\ Len(str.Cipher) < Len(str.Plain)
    /\ str' = StreamEncrypted(str,
                 IF str.hw
                 THEN HW_Encryptblock_CFB(RoundsOf(str.Keysize), str.State,
                                          str.Plain[Len(str.Cipher) + 1], str.Keys)
                 ELSE AsBytes(FALSE,
                         Encryptblock_CFB(RoundsOf(str.Keysize), BytesBlock(str.State),
                                          BytesBlock(str.Plain[Len(str.Cipher) + 1]), str.Keys)))
    /\ UNCHANGED notStr

StreamEncryptblockCTR ==
    /\ str.pc = "Encrypt" /\ str.Mode \in CTRModes /\ Len(str.Cipher) < Len(str.Plain)
    /\ str' = StreamEncrypted(str,
                 AsBytes(FALSE,
                    Encryptblock_CTR(RoundsOf(str.Keysize), CountersizeOf(str.Mode),
                                     BigendianOf(str.Mode), BytesBlock(str.State),
                                     BytesBlock(str.Plain[Len(str.Cipher) + 1]), str.Keys)))
    /\ UNCHANGED notStr

\* The caller turns to decryption: the State is the initial one again.
StreamBeginDecryption ==
    /\ str.pc = "Encrypt" /\ Len(str.Cipher) = Len(str.Plain)
    /\ str' = [str EXCEPT !.pc = "Decrypt", !.State = str.IV]
    /\ UNCHANGED notStr

StreamDecryptblockCFB ==
    /\ str.pc = "Decrypt" /\ str.Mode = "AES_CFB" /\ Len(str.Decrypted) < Len(str.Cipher)
    /\ str' = StreamDecrypted(str,
                 IF str.hw
                 THEN HW_Decryptblock_CFB(RoundsOf(str.Keysize), str.State,
                                          str.Cipher[Len(str.Decrypted) + 1], str.Keys)
                 ELSE AsBytes(FALSE,
                         Decryptblock_CFB(RoundsOf(str.Keysize), BytesBlock(str.State),
                                          BytesBlock(str.Cipher[Len(str.Decrypted) + 1]),
                                          str.Keys)))
    /\ UNCHANGED notStr

StreamDecryptblockCTR ==
    /\ str.pc = "Decrypt" /\ str.Mode \in CTRModes /\ Len(str.Decrypted) < Len(str.Cipher)
    /\ str' = StreamDecrypted(str,
                 AsBytes(FALSE,
                    Decryptblock_CTR(RoundsOf(str.Keysize), CountersizeOf(str.Mode),
                                     BigendianOf(str.Mode), BytesBlock(str.State),
                                     BytesBlock(str.Cipher[Len(str.Decrypted) + 1]), str.Keys)))
    /\ UNCHANGED notStr

NextStream ==
    \/ StreamEncryptblockCFB
    \/ StreamEncryptblockCTR
    \/ StreamBeginDecryption
    \/ StreamDecryptblockCFB
    \/ StreamDecryptblockCTR

\* The plaintext streams of one to MaxBlocks blocks.
RECURSIVE StreamPlains(_)
StreamPlains(n) ==
    IF n = 0 THEN {<<>>}
    ELSE {Append(st, b) : st \in StreamPlains(n - 1), b \in {AESData, Fill(16, 0)}}

\* The calls: CFB on both paths with each key size; each CTR mode from a counter at its
\* all-ones value and from the all-zero state.
StreamCalls ==
    {[StrFields EXCEPT !.pc = "Encrypt", !.Mode = "AES_CFB", !.hw = hw, !.Keysize = Keysize,
                       !.IV = AESIV, !.State = AESIV,
                       !.Keys = SelKeyexpansion(hw, Keysize, KeyOf(Keysize))] :
        hw \in BOOLEAN, Keysize \in {4, 6, 8}}
    \cup
    {[StrFields EXCEPT !.pc = "Encrypt", !.Mode = Mode, !.IV = IV, !.State = IV,
                       !.Keys = CTRKeys] :
        Mode \in CTRModes, IV \in {Fill(16, 0), Fill(16, 255)}}

InitStream ==
    /\ IdleBut("str")
    /\ \E call \in StreamCalls, n \in 1..MaxBlocks : \E Plain \in StreamPlains(n) :
          str = [call EXCEPT !.Plain = Plain]

SpecStream == InitStream /\ [][NextStream]_vars

\* The forward transform of block b under the stream's round keys, as bytes.
StreamTransform(st, b) ==
    SelBytes(st.hw, SelEncryptblock(st.hw, st.Keysize, SelBlock(st.hw, b), st.Keys))

XEXEncrypted(st, r, Tweak) ==
    [StreamEncrypted(st, r) EXCEPT !.Tweaks = Append(st.Tweaks, Tweak)]

XEXDecrypted(st, r, Tweak) ==
    [StreamDecrypted(st, r) EXCEPT !.DecTweaks = Append(st.DecTweaks, Tweak)]

PortableEncryptblockXEX ==
    /\ str.pc = "Encrypt" /\ str.Mode = "AES_XEX" /\ ~str.hw /\ Len(str.Cipher) < Len(str.Plain)
    /\ \E Garbage \in GarbageBits :
          str' = XEXEncrypted(str,
                    AsBytes(FALSE,
                       Encryptblock_XEX(RoundsOf(str.Keysize), BytesBlock(str.State),
                                        BytesBlock(str.Plain[Len(str.Cipher) + 1]), str.Keys,
                                        Garbage)),
                    str.State)
    /\ UNCHANGED notStr

\* The stream after a HW XEX function returned r.
HWXEXEncrypted(st, r) == XEXEncrypted(st, r, r.Tweak)

HWXEXDecrypted(st, r) == XEXDecrypted(st, r, r.Tweak)

HWEncryptblockXEX ==
    /\ str.pc = "Encrypt" /\ str.Mode = "AES_XEX" /\ str.hw /\ Len(str.Cipher) < Len(str.Plain)
    /\ str' = HWXEXEncrypted(str,
                 HW_Encryptblock_XEX(RoundsOf(str.Keysize), str.State,
                                     str.Plain[Len(str.Cipher) + 1], str.Keys, str.Tweakkeys))
    /\ UNCHANGED notStr

PortableDecryptblockXEX ==
    /\ str.pc = "Decrypt" /\ str.Mode = "AES_XEX" /\ ~str.hw
    /\ Len(str.Decrypted) < Len(str.Cipher)
    /\ \E Garbage \in GarbageBits :
          str' = XEXDecrypted(str,
                    AsBytes(FALSE,
                       Decryptblock_XEX(RoundsOf(str.Keysize), BytesBlock(str.State),
                                        BytesBlock(str.Cipher[Len(str.Decrypted) + 1]),
                                        str.INVKeys, Garbage)),
                    str.State)
    /\ UNCHANGED notStr

HWDecryptblockXEX ==
    /\ str.pc = "Decrypt" /\ str.Mode = "AES_XEX" /\ str.hw
    /\ Len(str.Decrypted) < Len(str.Cipher)
    /\ str' = HWXEXDecrypted(str,
                 HW_Decryptblock_XEX(RoundsOf(str.Keysize), str.State,
                                     str.Cipher[Len(str.Decrypted) + 1], str.INVKeys,
                                     str.Tweakkeys))
    /\ UNCHANGED notStr

NextXEX ==
    \/ PortableEncryptblockXEX
    \/ HWEncryptblockXEX
    \/ StreamBeginDecryption
    \/ PortableDecryptblockXEX
    \/ HWDecryptblockXEX

\* The calls: the Portable functions from a tweak, the HW functions from a sector number.
XEXCalls ==
    {[StrFields EXCEPT !.pc = "Encrypt", !.Mode = "AES_XEX", !.Keysize = Keysize,
                       !.IV = Tweak, !.State = Tweak,
                       !.Keys = Keyexpansion(Keysize, RoundsOf(Keysize), KeyOf(Keysize)),
                       !.INVKeys = INVKeyexpansion(Keysize, RoundsOf(Keysize), KeyOf(Keysize))] :
        Keysize \in {4, 8}, Tweak \in {AESIV, FIPSPlain, [Fill(16, 0) EXCEPT ![1] = 1]}}
    \cup
    {[StrFields EXCEPT !.pc = "Encrypt", !.Mode = "AES_XEX", !.hw = TRUE, !.Keysize = Keysize,
                       !.IV = Sector, !.State = Sector,
                       !.Keys = HW_Keyexpansion(Keysize, RoundsOf(Keysize), KeyOf(Keysize)),
                       !.INVKeys = HW_INVKeyexpansion(Keysize, RoundsOf(Keysize), KeyOf(Keysize)),
                       !.Tweakkeys = HW_Keyexpansion(Keysize, RoundsOf(Keysize),
                                                     TweakkeyOf(Keysize))] :
        Keysize \in {4, 8}, Sector \in {SectorID, Fill(8, 0)}}

InitXEX ==
    /\ IdleBut("str")
    /\ \E call \in XEXCalls, n \in 1..MaxBlocks : \E Plain \in StreamPlains(n) :
          str = [call EXCEPT !.Plain = Plain]

SpecXEX == InitXEX /\ [][NextXEX]_vars

\* C12: in XEX, on both paths, block i of a sector is XORed before and after the block
\* transform with tweak_i, and tweak_(i+1) is the GF(2^128) double of tweak_i: the tweak of a
\* later block comes from the one before by doubling alone, not by another encryption.
C12_TweakDoubling ==
    /\ \A i \in 1..Len(str.Cipher) :
          /\ str.Cipher[i] =
                mm_xor_si128(StreamTransform(str, mm_xor_si128(str.Plain[i], str.Tweaks[i])),
                             str.Tweaks[i])
          /\ i > 1 => str.Tweaks[i] = Alpha(str.Tweaks[i - 1])
    /\ \A i \in 1..Len(str.Decrypted) :
          /\ str.DecTweaks[i] = str.Tweaks[i]
          /\ str.Decrypted[i] = str.Plain[i]

(***************************************************************************)
(* The choice of the path.  Every driver starts with                       *)
(*     if (std::is_constant_evaluated() || !hasIntrinsics())               *)
(* and hasIntrinsics executes CPUID leaf 1 and tests bit 25 of ECX.  `ECX' *)
(* is what the host answers, `probes' counts the executions of CPUID, and  *)
(* `calls' lists the run-time calls of a process with the path each took.  *)
(***************************************************************************)
\* return (CPUID[2] & (1 << 25)) != 0;
hasIntrinsics(ECX) == (ECX \div (2 ^ 25)) % 2 # 0

\* The most calls of a process.
MaxCalls == 2

\* The path a driver takes; at run time std::is_constant_evaluated() is false.
PathOf(constantEvaluated, has) == IF constantEvaluated \/ ~has THEN "Portable" ELSE "HW"

\* A run-time call of a driver: hasIntrinsics() is called, and with it CPUID.
DriverCall ==
    /\ cpu.pc = "run" /\ Len(cpu.calls) < MaxCalls
    /\ \E fn \in {"Encrypt", "Decrypt"}, Padded \in BOOLEAN, Mode \in Mode_t :
          cpu' = [cpu EXCEPT
                     !.probes = cpu.probes + 1,
                     !.calls = Append(cpu.calls,
                                      [fn |-> fn, Padded |-> Padded, Mode |-> Mode,
                                       path |-> PathOf(FALSE, hasIntrinsics(cpu.ECX))])]
    /\ UNCHANGED notCpu

NextCpu == DriverCall

\* Answers of CPUID leaf 1 in ECX: without and with the AES bit (bit 25).
ECXChoices == {0, 2 ^ 19, 2 ^ 25, 2 ^ 25 + 2 ^ 19, 2 ^ 26}

InitCpu ==
    /\ IdleBut("cpu")
    /\ \E ECX \in ECXChoices : cpu = [CpuFields EXCEPT !.pc = "run", !.ECX = ECX]

SpecCpu == InitCpu /\ [][NextCpu]_vars

\* C13: over the calls of one process the instruction-support flags are read at most once,
\* and all calls take the same path.
C13_ProbedOnce ==
    /\ cpu.probes <= 1
    /\ \A i, j \in 1..Len(cpu.calls) : cpu.calls[i].path = cpu.calls[j].path

(***************************************************************************)
(* The loop that fills Portable::SBox, one iteration per step.  `visited'  *)
(* lists the values P took, `written' the indices of Buffer assigned.      *)
(***************************************************************************)
\* One iteration of the do-while loop.
SBoxIteration ==
    /\ box.pc = "loop" /\ ~box.s.done
    /\ box' = [box EXCEPT !.s = SBoxStep(box.s),
                          !.visited = Append(box.visited, Mul3_u8(box.s.P)),
                          !.written = box.written \cup {Mul3_u8(box.s.P)}]
    /\ UNCHANGED notBox

\* while (P != 1) has ended: Buffer[0] = 0x63; return Buffer;
SBoxReturn ==
    /\ box.pc = "loop" /\ box.s.done
    /\ box' = [box EXCEPT !.pc = "done", !.s = [box.s EXCEPT !.Buffer[1] = 99],
                          !.written = box.written \cup {0}]
    /\ UNCHANGED notBox

NextBox ==
    \/ SBoxIteration
    \/ SBoxReturn

InitBox ==
    /\ IdleBut("box")
    /\ box = [BoxFields EXCEPT !.pc = "loop", !.s = SBoxStart]

\* The lambda runs to its end once it has been entered.
SpecBox == InitBox /\ [][NextBox]_vars /\ WF_vars(NextBox)

\* The values of `visited' are pairwise different.
NoRepeat(seq) == \A i, j \in 1..Len(seq) : seq[i] = seq[j] => i = j

\* What holds at every iteration of the loop and at its end.
SBoxLoopInvariant ==
    box.pc # "off"
        => /\ box.s.iterations <= 255
           /\ box.s.iterations = Len(box.visited)
           /\ GFMul(box.s.P, box.s.Q) = 1
           /\ NoRepeat(box.visited)
           /\ \A i \in 1..Len(box.visited) : box.visited[i] # 0
           /\ \A i \in 1..Len(box.visited) : box.visited[i] = 1 => i = 255
           /\ box.s.done <=> box.s.iterations = 255
           /\ box.pc = "done" => box.written = 0..255

\* C14: the loop that generates the substitution box terminates; from P = Q = 1 it makes
\* exactly 255 iterations, P * Q = 1 in GF(2^8) holds at each of them, P takes every non-zero
\* byte value exactly once and is 1 again only at the end, and then all 256 entries of the
\* table have been assigned.
C14_SBoxLoop == []SBoxLoopInvariant /\ <>(box.pc = "done")

\* The loop has ended after 255 iterations with the table of the block functions.
C14_Witness ==
    /\ box.pc = "done"
    /\ box.s.iterations = 255
    /\ box.s.P = 1 /\ box.s.Q = 1
    /\ box.s.Buffer = SBox

(***************************************************************************)
(* The four overloads of Mul2 and Mul3, each applied to an argument.       *)
(***************************************************************************)
\* An overload has returned `out' (a uint8_t as a one-byte sequence).
Returned(fn, out) == [gf EXCEPT !.pc = "out", !.fn = fn, !.out = out]

ApplyMul2_u8 ==
    /\ gf.pc = "in" /\ gf' = Returned("Mul2_u8", <<Mul2_u8(gf.byte)>>)
    /\ UNCHANGED notGf

ApplyMul3_u8 ==
    /\ gf.pc = "in" /\ gf' = Returned("Mul3_u8", <<Mul3_u8(gf.byte)>>)
    /\ UNCHANGED notGf

ApplyMul2_u32 ==
    /\ gf.pc = "in" /\ gf' = Returned("Mul2_u32", Mul2_u32(gf.word))
    /\ UNCHANGED notGf

ApplyMul3_u32 ==
    /\ gf.pc = "in" /\ gf' = Returned("Mul3_u32", Mul3_u32(gf.word))
    /\ UNCHANGED notGf

NextGf ==
    \/ ApplyMul2_u8
    \/ ApplyMul3_u8
    \/ ApplyMul2_u32
    \/ ApplyMul3_u32

\* A word in which every byte value occurs at every position as b runs over 0 .. 255.
WordOfByte(b) == <<b, (b * 7 + 1) % 256, 255 - b, (b + 128) % 256>>

InitGf ==
    /\ IdleBut("gf")
    /\ \E b \in 0..255 : gf = [GfFields EXCEPT !.pc = "in", !.byte = b, !.word = WordOfByte(b)]

SpecGf == InitGf /\ [][NextGf]_vars

\* The argument as the sequence of its bytes.
GfArgument == IF gf.fn \in {"Mul2_u8", "Mul3_u8"} THEN <<gf.byte>> ELSE gf.word

\* Every byte of the result is the factor times the same byte of the argument, in GF(2^8)
\* modulo x^8 + x^4 + x^3 + x + 1.
MultipliesBy(factor) ==
    /\ Len(gf.out) = Len(GfArgument)
    /\ \A k \in 1..Len(gf.out) : gf.out[k] = GFMul(factor, GfArgument[k])

\* C15: every overload of Mul2 multiplies each byte of its argument by 2, and every overload
\* of Mul3 by 3, in GF(2^8), with no carry between neighbouring bytes.
C15_MulGF ==
    gf.pc = "out"
        => MultipliesBy(IF gf.fn \in {"Mul2_u8", "Mul2_u32"} THEN 2 ELSE 3)

\* C15 as amended: both overloads of Mul2 multiply each byte by 2 and Mul3(uint8_t) by 3;
\* Mul3(uint32_t) multiplies each byte of the word by 4 (the factor INVMix needs), all in
\* GF(2^8) and with no carry between neighbouring bytes.
C15_MulGFAmended ==
    gf.pc = "out"
        => MultipliesBy(IF gf.fn \in {"Mul2_u8", "Mul2_u32"} THEN 2
                        ELSE IF gf.fn = "Mul3_u8" THEN 3 ELSE 4)

\* Mul3 on a word whose bytes all reduce: ff fa 00 7f, where the factor 3 gives another word.
C15_Witness ==
    /\ gf.pc = "out" /\ gf.fn = "Mul3_u32"
    /\ gf.word = <<255, 250, 0, 127>>
    /\ gf.out = <<GFMul(4, 255), GFMul(4, 250), 0, GFMul(4, 127)>>
    /\ gf.out # <<GFMul(3, 255), GFMul(3, 250), 0, GFMul(3, 127)>>

(***************************************************************************)
(* Ringbuffer_t<int, N>: Head and Size are of the smallest unsigned type   *)
(* that holds N; Storage[i] of the code is Storage[i + 1] here.            *)
(***************************************************************************)
\* The number of values of cmp::Smallint_t<N>, the type of Head, Size and the iterator's Index.
SizeTypeValues(N) == IF N < 2 ^ 8 THEN 2 ^ 8 ELSE 2 ^ 16

Clamp(N, Value) == Value % N

\* Index + Offset + N is computed in size_t and narrowed to size_type before Clamp.
Advance(N, Index, Offset) == Clamp(N, (Index + Offset + N) % SizeTypeValues(N))

\* What push_back and emplace_back both leave: the value at Head, Size grown unless full,
\* Head advanced.
Pushed(r, Value) ==
    [r EXCEPT !.Storage = [r.Storage EXCEPT ![r.Head + 1] = Value],
              !.Size = IF r.Size # r.N THEN r.Size + 1 ELSE r.Size,
              !.Head = Advance(r.N, r.Head, 1),
              !.pushed = Append(r.pushed, Value)]

front(r) == r.Storage[Advance(r.N, r.Head, -1) + 1]

back(r) == r.Storage[r.Head + 1]

\* The values seen by a loop from begin() to end(): Count dereferences, the Index stepping
\* by Advance(Index, -1).
RECURSIVE IterateFrom(_, _, _, _)
IterateFrom(r, Index, Count, seen) ==
    IF Evaluated(seen) /\ Count = 0 THEN seen
    ELSE IterateFrom(r, Advance(r.N, Index, -1), Count - 1, Append(seen, r.Storage[Index + 1]))

Iterate(r) == IterateFrom(r, Advance(r.N, r.Head, -1), r.Size, <<>>)

\* How many pushes beyond the capacity a run makes.
MaxExtraPushes == 2

\* Capacities: the unit test's 3 and smaller, and the largest ones of an 8-bit size_type.
Capacities == {1, 2, 3, 128, 129, 255}

\* The k-th pushed value: k itself, or -k too for the small capacities.
PushChoices(r) ==
    IF r.N <= 3 THEN {Len(r.pushed) + 1, -(Len(r.pushed) + 1)} ELSE {Len(r.pushed) + 1}

CanPush == ring.pc = "live" /\ Len(ring.pushed) < ring.N + MaxExtraPushes

push_back ==
    /\ CanPush
    /\ \E Value \in PushChoices(ring) : ring' = Pushed(ring, Value)
    /\ UNCHANGED notRing

emplace_back ==
    /\ CanPush
    /\ \E Value \in PushChoices(ring) : ring' = Pushed(ring, Value)
    /\ UNCHANGED notRing

NextRing ==
    \/ push_back
    \/ emplace_back

InitRing ==
    /\ IdleBut("ring")
    /\ \E N \in Capacities :
          ring = [RingFields EXCEPT !.pc = "live", !.N = N, !.Storage = [i \in 1..N |-> 0]]

SpecRing == InitRing /\ [][NextRing]_vars

\* The last min(k, N) of the k pushed values, newest first.
LastPushed(r) ==
    [j \in 1..(IF Len(r.pushed) < r.N THEN Len(r.pushed) ELSE r.N) |->
        r.pushed[Len(r.pushed) + 1 - j]]

\* C16: after k pushes the buffer holds exactly the last min(k, N) pushed values: size() is
\* min(k, N), and a loop from begin() yields them newest first, starting with front().
C16_HoldsLastPushed ==
    ring.pc = "live"
        => /\ ring.Size = Len(LastPushed(ring))
           /\ Iterate(ring) = LastPushed(ring)
           /\ ring.pushed # <<>> => front(ring) = ring.pushed[Len(ring.pushed)]

(***************************************************************************)
(* Bytebuffer_t in owning mode.  Data[i + 1] is byte i of the allocation.  *)
(* A value is the sequence of its numbers: one number for a bool (0 or 1)  *)
(* and for an integer, the elements for a vector or a blob, the character  *)
(* codes (without the terminator) for a string.                            *)
(***************************************************************************)
BB_NONE == 0

BB_ARRAY == 100

toID(Type) ==
    CASE Type = "Blob_t" -> 1
      [] Type = "std::string" -> 2
      [] Type = "bool" -> 5
      [] Type = "uint8_t" -> 7
      [] Type = "uint16_t" -> 9
      [] Type = "uint32_t" -> 11
      [] Type = "std::vector<uint16_t>" -> BB_ARRAY + 9

sizeofType(Type) ==
    CASE Type \in {"bool", "uint8_t"} -> 1
      [] Type = "uint16_t" -> 2
      [] Type = "uint32_t" -> 4

\* The bytes of an n-byte integer, least significant first.
toLittle(v, n) == [k \in 1..n |-> (v \div (256 ^ (k - 1))) % 256]

RECURSIVE fromLittle(_)
fromLittle(Bytes) ==
    IF Bytes = <<>> THEN 0 ELSE Head(Bytes) + 256 * fromLittle(Tail(Bytes))

\* Expandbuffer when the write ends behind the allocation, the copy at the iterator, and
\* the iterator moved behind it.
rawWrite(r, Bytes) ==
    [r EXCEPT
        !.Data = [i \in 1..(IF r.Internaliterator + Len(Bytes) > r.Internalsize
                            THEN r.Internaliterator + Len(Bytes) ELSE r.Internalsize) |->
                     IF i > r.Internaliterator /\ i <= r.Internaliterator + Len(Bytes)
                     THEN Bytes[i - r.Internaliterator]
                     ELSE IF i <= r.Internalsize THEN r.Data[i] ELSE 0],
        !.Internalsize = IF r.Internaliterator + Len(Bytes) > r.Internalsize
                         THEN r.Internaliterator + Len(Bytes) ELSE r.Internalsize,
        !.Internaliterator = r.Internaliterator + Len(Bytes)]

\* The byte prefix identifier for the type.
WritePrefix(r, Type, Typechecked) ==
    IF Typechecked \/ toID(Type) > BB_ARRAY THEN rawWrite(r, <<toID(Type)>>) ELSE r

\* Write<Type> of a bool or an integer.
WritePOD(r, Type, Value, Typechecked) ==
    rawWrite(WritePrefix(r, Type, Typechecked), toLittle(Value[1], sizeofType(Type)))

\* for (const auto &Item : Value) Write(Item, false)
RECURSIVE WriteItems(_, _)
WriteItems(r, Items) ==
    IF Evaluated(r.Data) /\ Items = <<>> THEN r
    ELSE WriteItems(WritePOD(r, "uint16_t", <<Head(Items)>>, FALSE), Tail(Items))

\* Write<Type>(Value) with Typechecked = true.
Write(r, Type, Value) ==
    CASE Type = "std::vector<uint16_t>" ->
            WriteItems(WritePOD(WritePOD(WritePrefix(r, Type, TRUE), "uint32_t",
                                         <<sizeofType("uint16_t") * Len(Value)>>, TRUE),
                                "uint32_t", <<Len(Value)>>, FALSE),
                       Value)
      [] Type = "Blob_t" ->
            rawWrite(WritePOD(WritePrefix(r, Type, TRUE), "uint32_t", <<Len(Value)>>, TRUE),
                     Value)
      [] Type = "std::string" -> rawWrite(WritePrefix(r, Type, TRUE), Value \o <<0>>)
      [] OTHER -> WritePOD(r, Type, Value, TRUE)

Peek(r, it) == IF it >= r.Internalsize THEN BB_NONE ELSE r.Data[it + 1]

\* Whether rawRead(Size) at iterator `it' succeeds.
rawRead(r, it, Size) == it + Size <= r.Internalsize

\* What a Read leaves: its return value, the Buffer, the iterator.
ReadResult(ok, val, it) == [ok |-> ok, val |-> val, it |-> it, aborted |-> FALSE]

\* A Read that does not return (a failed assert, a read outside the allocation).
Aborted(it) == [ok |-> FALSE, val |-> <<>>, it |-> it, aborted |-> TRUE]

\* Type{}: false, zero, or the empty container.
Default(Type) == IF Type \in {"bool", "uint8_t", "uint16_t", "uint32_t"} THEN <<0>> ELSE <<>>

\* The type check at the head of Read: "none" for a stored BB_NONE, "mismatch" for another
\* ID than the expected one, else the iterator behind the prefix.
Header(r, it, Type, Typechecked) ==
    IF Typechecked \/ toID(Type) > BB_ARRAY
    THEN IF Peek(r, it) = BB_NONE THEN "none"
         ELSE IF Peek(r, it) # toID(Type) THEN "mismatch" ELSE "checked"
    ELSE "unchecked"

\* Read<Type> stopped by the type check: Buffer = {} and one byte skipped, or no change.
Unread(r, it, Type, h) ==
    IF h = "none" THEN ReadResult(rawRead(r, it, 1), Default(Type), IF rawRead(r, it, 1) THEN it + 1 ELSE it)
    ELSE ReadResult(FALSE, Default(Type), it)

\* rawRead(sizeof(Type), &Buffer) and fromLittle.
PODValue(r, it, Type) ==
    IF rawRead(r, it, sizeofType(Type))
    THEN ReadResult(TRUE, <<fromLittle(SubSeq(r.Data, it + 1, it + sizeofType(Type)))>>,
                it + sizeofType(Type))
    ELSE ReadResult(FALSE, Default(Type), it)

\* Read<Type> of a bool or an integer.
ReadPOD(r, it, Type, Typechecked) ==
    IF Header(r, it, Type, Typechecked) \in {"none", "mismatch"}
    THEN Unread(r, it, Type, Header(r, it, Type, Typechecked))
    ELSE PODValue(r, IF Header(r, it, Type, Typechecked) = "checked" THEN it + 1 ELSE it, Type)

\* The vector behind its prefix, given the results of Read<uint32_t>() for the Size and of
\* Read<uint32_t>(false) for the Count.
VectorValue(r, Size, Count) ==
    IF Size.val[1] = 0 \/ Count.val[1] = 0
          \/ Count.val[1] * sizeofType("uint16_t") # Size.val[1]
    THEN ReadResult(FALSE, <<>>, Count.it)
    ELSE IF rawRead(r, Count.it, Size.val[1])
         THEN ReadResult(TRUE,
                     [i \in 1..Count.val[1] |->
                         fromLittle(SubSeq(r.Data, Count.it + 2 * i - 1, Count.it + 2 * i))],
                     Count.it + Size.val[1])
         ELSE ReadResult(FALSE, [i \in 1..Count.val[1] |-> 0], Count.it)

\* The blob behind its prefix, given the result of Read<uint32_t>(Typechecked) for the Size.
BlobValue(r, Size) ==
    IF rawRead(r, Size.it, Size.val[1])
    THEN ReadResult(TRUE, SubSeq(r.Data, Size.it + 1, Size.it + Size.val[1]), Size.it + Size.val[1])
    ELSE ReadResult(FALSE, [i \in 1..Size.val[1] |-> 0], Size.it)

\* std::isalnum in the "C" locale.
isalnum(c) == c \in (48..57) \cup (65..90) \cup (97..122)

\* The zero bytes at or behind the iterator.
Terminators(r, it) == {p \in (it + 1)..r.Internalsize : r.Data[p] = 0}

\* The string up to the terminator at `end', and the outcomes of the ASSERT on its front().
StringUpTo(r, it, end) ==
    IF end > it + 1 /\ isalnum(r.Data[it + 1])
    THEN {ReadResult(TRUE, SubSeq(r.Data, it + 1, end - 1), end)}
    ELSE {ReadResult(TRUE, SubSeq(r.Data, it + 1, end - 1), end), Aborted(it)}

\* The string behind its prefix: Type(data(true)) reads up to the first zero byte.
StringValue(r, it) ==
    IF Terminators(r, it) = {}
    THEN {Aborted(it), ReadResult(FALSE, SubSeq(r.Data, it + 1, r.Internalsize), it)}
    ELSE StringUpTo(r, it, CHOOSE p \in Terminators(r, it) : \A q \in Terminators(r, it) : p <= q)

\* The outcomes of Read<Type>(Buffer) with Typechecked = true at iterator `it'.
Read(r, it, Type) ==
    IF Header(r, it, Type, TRUE) \in {"none", "mismatch"}
    THEN {Unread(r, it, Type, Header(r, it, Type, TRUE))}
    ELSE CASE Type = "std::vector<uint16_t>" ->
                 {VectorValue(r, ReadPOD(r, it + 1, "uint32_t", TRUE),
                              ReadPOD(r, ReadPOD(r, it + 1, "uint32_t", TRUE).it,
                                      "uint32_t", FALSE))}
           [] Type = "Blob_t" -> {BlobValue(r, ReadPOD(r, it + 1, "uint32_t", TRUE))}
           [] Type = "std::string" -> StringValue(r, it + 1)
           [] OTHER -> {PODValue(r, it + 1, Type)}

\* How many values a run writes.
MaxWrites == 2

\* The values written: those of the unit test, the zero, and the containers empty and not.
WriteChoices ==
    {[type |-> "uint32_t", val |-> <<42>>], [type |-> "uint32_t", val |-> <<0>>],
     [type |-> "uint8_t", val |-> <<2>>],
     [type |-> "bool", val |-> <<1>>], [type |-> "bool", val |-> <<0>>],
     [type |-> "std::string", val |-> <<72, 101, 108, 108, 111>>],
     [type |-> "std::string", val |-> <<>>],
     [type |-> "std::string", val |-> <<32, 97>>],
     [type |-> "std::string", val |-> <<97, 0, 98>>],
     [type |-> "std::vector<uint16_t>", val |-> <<1, 513>>],
     [type |-> "std::vector<uint16_t>", val |-> <<>>],
     [type |-> "Blob_t", val |-> <<0, 255>>],
     [type |-> "Blob_t", val |-> <<>>]}

BufWrite ==
    /\ buf.pc = "writing" /\ Len(buf.written) < MaxWrites
    /\ \E w \in WriteChoices :
          buf' = [Write(buf, w.type, w.val) EXCEPT !.written = Append(buf.written, w)]
    /\ UNCHANGED notBuf

Rewind ==
    /\ buf.pc = "writing" /\ buf.written # <<>>
    /\ buf' = [buf EXCEPT !.pc = "reading", !.Internaliterator = 0]
    /\ UNCHANGED notBuf

\* The next Read, of the type of the value written at the same place.
BufRead ==
    /\ buf.pc = "reading" /\ Len(buf.reads) < Len(buf.written)
    /\ \E o \in Read(buf, buf.Internaliterator, buf.written[Len(buf.reads) + 1].type) :
          buf' = [buf EXCEPT !.pc = IF o.aborted THEN "aborted" ELSE "reading",
                             !.Internaliterator = o.it,
                             !.reads = Append(buf.reads, [ok |-> o.ok, val |-> o.val])]
    /\ UNCHANGED notBuf

NextBuf ==
    \/ BufWrite
    \/ Rewind
    \/ BufRead

InitBuf ==
    /\ IdleBut("buf")
    /\ buf = [BufFields EXCEPT !.pc = "writing"]

SpecBuf == InitBuf /\ [][NextBuf]_vars

\* C17: after the Writes and Rewind, the same sequence of typed Reads returns true for
\* every read and yields the written values in the written order.
C17_ReadsWhatWasWritten ==
    /\ buf.pc # "aborted"
    /\ \A k \in 1..Len(buf.reads) :
          buf.reads[k].ok /\ buf.reads[k].val = buf.written[k].val

(***************************************************************************)
(* Encoding::toASCII(std::u8string_view) and Encoding::toUTF8(             *)
(* std::string_view).  A string is the sequence of its character codes; a  *)
(* code point is a number.  Sequences of up to four bytes are covered.     *)
(***************************************************************************)
isASCII(Input) == \A i \in 1..Len(Input) : Input[i] < 128

\* Sequencelength(Controlcode_t): the length announced by the first byte of a sequence.
SequencelengthOfByte(Code) ==
    IF Code = 0 THEN 0
    ELSE IF Code < 128 THEN 1
    ELSE IF Code \div 32 = 6 THEN 2
    ELSE IF Code \div 16 = 14 THEN 3
    ELSE IF Code \div 8 = 30 THEN 4
    ELSE IF Code \div 4 = 62 THEN 5
    ELSE IF Code \div 2 = 126 THEN 6
    ELSE 0

\* Sequencelength(Codepoint_t): the length needed for a code point below 2^31.
Sequencelength(Code) ==
    IF Code < 128 THEN 1
    ELSE IF Code < 2048 THEN 2
    ELSE IF Code < 65536 THEN 3
    ELSE IF Code < 2097152 THEN 4
    ELSE IF Code < 67108864 THEN 5
    ELSE 6

\* toCodepoint(std::u8string_view) for a sequence of at most four bytes.
toCodepoint(Sequence) ==
    IF SequencelengthOfByte(Sequence[1]) = 0 \/ SequencelengthOfByte(Sequence[1]) > Len(Sequence)
    THEN 0
    ELSE CASE SequencelengthOfByte(Sequence[1]) = 1 -> Sequence[1]
           [] SequencelengthOfByte(Sequence[1]) = 2 ->
                 ((Sequence[1] % 32) * 64) + (Sequence[2] % 64)
           [] SequencelengthOfByte(Sequence[1]) = 3 ->
                 ((Sequence[1] % 16) * 4096) + ((Sequence[2] % 64) * 64) + (Sequence[3] % 64)
           [] OTHER ->
                 ((Sequence[1] % 8) * 262144) + ((Sequence[2] % 64) * 4096)
                     + ((Sequence[3] % 64) * 64) + (Sequence[4] % 64)

\* The lambda fromHex of toCodepoint(std::string_view): Result <<= 4, then the digit.
RECURSIVE fromHex(_, _)
fromHex(Input, Result) ==
    IF Input = <<>> THEN Result
    ELSE fromHex(Tail(Input),
                 Result * 16
                   + (IF Head(Input) > 64 /\ Head(Input) < 71 THEN Head(Input) - 55
                      ELSE IF Head(Input) > 96 /\ Head(Input) < 103 THEN Head(Input) - 87
                      ELSE IF Head(Input) > 47 /\ Head(Input) < 58 THEN Head(Input) - 48
                      ELSE 0))

\* while (Escape.front() == '\\') Escape.remove_prefix(1)
RECURSIVE StripBackslashes(_)
StripBackslashes(Escape) ==
    IF Escape # <<>> /\ Head(Escape) = 92 THEN StripBackslashes(Tail(Escape)) ELSE Escape

\* The digits behind the u (four) or the U (eight) of an escape without its backslashes.
EscapeDigits(Escape) ==
    SubSeq(Escape, 2, IF Head(Escape) = 117 THEN 5 ELSE 9)

\* toCodepoint(std::string_view) on the text from an escape on.
toCodepointOfEscape(Escape) == fromHex(EscapeDigits(StripBackslashes(Escape)), 0)

\* fromCodepoint for a code point below 0x200000.
fromCodepoint(Code) ==
    IF Code < 128 THEN <<Code>>
    ELSE IF Code < 2048 THEN <<((Code \div 64) % 32) + 192, (Code % 64) + 128>>
    ELSE IF Code < 65536
    THEN <<((Code \div 4096) % 16) + 224, ((Code \div 64) % 64) + 128, (Code % 64) + 128>>
    ELSE <<((Code \div 262144) % 8) + 240, ((Code \div 4096) % 64) + 128,
           ((Code \div 64) % 64) + 128, (Code % 64) + 128>>

Charset == <<48, 49, 50, 51, 52, 53, 54, 55, 56, 57, 65, 66, 67, 68, 69, 70>>

\* The lambda toHex of narrowPoint: Charset[Byte >> 4], Charset[Byte & 7].
toHex(Byte) == <<Charset[(Byte \div 16) + 1], Charset[And8(Byte, 7) + 1]>>

\* narrowPoint<false>: \uXXXX from the two low bytes, or \UXXXXXXXX from all four.
narrowPoint(Code) ==
    IF Code < 65536
    THEN <<92, 117>> \o toHex((Code \div 256) % 256) \o toHex(Code % 256)
    ELSE <<92, 85>> \o toHex(Code \div 16777216) \o toHex((Code \div 65536) % 256)
             \o toHex((Code \div 256) % 256) \o toHex(Code % 256)

\* What one pass of toASCII's loop appends for a sequence of Size bytes at the front.
Narrowed(Input, Size) ==
    IF Size # 1 THEN narrowPoint(toCodepoint(Input)) ELSE <<Head(Input)>>

\* The while loop of toASCII.
RECURSIVE toASCIILoop(_, _)
toASCIILoop(Input, Buffer) ==
    IF Evaluated(Buffer) /\ Input = <<>> THEN Buffer
    ELSE toASCIILoop(SubSeq(Input, Sequencelength(toCodepoint(Input)) + 1, Len(Input)),
                     Buffer \o Narrowed(Input, Sequencelength(toCodepoint(Input))))

toASCII(Input) == IF isASCII(Input) THEN Input ELSE toASCIILoop(Input, <<>>)

\* std::min(Input.find("\\u"), Input.find("\\U")): the index (from 0) of the first escape,
\* Len(Input) when there is none.
FirstEscape(Input) ==
    IF \E p \in 1..(Len(Input) - 1) : Input[p] = 92 /\ Input[p + 1] \in {117, 85}
    THEN (CHOOSE p \in 1..(Len(Input) - 1) :
             /\ Input[p] = 92 /\ Input[p + 1] \in {117, 85}
             /\ \A q \in 1..(p - 1) : ~(Input[q] = 92 /\ Input[q + 1] \in {117, 85})) - 1
    ELSE Len(Input)

\* The Result after the decoded Codepoint, with the pending high surrogate Extendedpoint.
Decoded(Result, Codepoint, Extendedpoint) ==
    IF Codepoint >= 55296 /\ Codepoint <= 56319 THEN Result
    ELSE IF Extendedpoint # 0
    THEN Result \o fromCodepoint(Extendedpoint + Codepoint - 56613888)
    ELSE Result \o fromCodepoint(Codepoint)

\* The while loop of toUTF8(std::string_view); Input starts at an escape or is empty.
RECURSIVE toUTF8Loop(_, _, _)
toUTF8Loop(Input, Result, Extendedpoint) ==
    IF Evaluated(Result) /\ Input = <<>> THEN Result
    ELSE IF FirstEscape(Input) > 0
    THEN toUTF8Loop(SubSeq(Input, FirstEscape(Input) + 1, Len(Input)),
                    Result \o SubSeq(Input, 1, FirstEscape(Input)), Extendedpoint)
    ELSE toUTF8Loop(SubSeq(Input, (IF toCodepointOfEscape(Input) < 65536 THEN 6 ELSE 10) + 1,
                           Len(Input)),
                    Decoded(Result, toCodepointOfEscape(Input), Extendedpoint),
                    IF toCodepointOfEscape(Input) >= 55296 /\ toCodepointOfEscape(Input) <= 56319
                    THEN toCodepointOfEscape(Input) * 1024 ELSE 0)

toUTF8(Input) ==
    IF FirstEscape(Input) = Len(Input) THEN Input ELSE toUTF8Loop(Input, <<>>, 0)

\* How many code points an input string has at most.
MaxPoints == 2

\* The code points of the inputs: A, the unit test's three, and others of two and three bytes.
PointChoices == {65, 229, 228, 246, 233, 256, 2048, 8364}

\* The UTF-8 string of a sequence of code points below 0x10000.
RECURSIVE UTF8Of(_)
UTF8Of(points) ==
    IF points = <<>> THEN <<>>
    ELSE (IF Head(points) < 128 THEN <<Head(points)>>
          ELSE IF Head(points) < 2048
          THEN <<192 + (Head(points) \div 64), 128 + (Head(points) % 64)>>
          ELSE <<224 + (Head(points) \div 4096), 128 + ((Head(points) \div 64) % 64),
                 128 + (Head(points) % 64)>>) \o UTF8Of(Tail(points))

CallToASCII ==
    /\ utf.pc = "in"
    /\ utf' = [utf EXCEPT !.pc = "ascii", !.ASCII = toASCII(utf.Input)]
    /\ UNCHANGED notUtf

CallToUTF8 ==
    /\ utf.pc = "ascii"
    /\ utf' = [utf EXCEPT !.pc = "utf8", !.UTF8 = toUTF8(utf.ASCII)]
    /\ UNCHANGED notUtf

NextUtf ==
    \/ CallToASCII
    \/ CallToUTF8

InitUtf ==
    /\ IdleBut("utf")
    /\ \E n \in 1..MaxPoints : \E points \in [1..n -> PointChoices] :
          utf = [UtfFields EXCEPT !.pc = "in", !.points = points, !.Input = UTF8Of(points)]

SpecUtf == InitUtf /\ [][NextUtf]_vars

\* The upper-case hexadecimal digit of a value in 0 .. 15.
HexDigit(d) == IF d < 10 THEN 48 + d ELSE 55 + d

\* A string with every code point above 0x7F written as \uXXXX.
RECURSIVE Escaped(_)
Escaped(points) ==
    IF points = <<>> THEN <<>>
    ELSE (IF Head(points) < 128 THEN <<Head(points)>>
          ELSE <<92, 117, HexDigit(Head(points) \div 4096), HexDigit((Head(points) \div 256) % 16),
                 HexDigit((Head(points) \div 16) % 16), HexDigit(Head(points) % 16)>>)
         \o Escaped(Tail(points))

\* C18: toASCII renders every non-ASCII code point c <= 0xFFFF as \uXXXX with XXXX the four
\* upper-case hexadecimal digits of c, and toUTF8(toASCII(s)) is s.
C18_EscapeRoundTrip ==
    /\ utf.pc \in {"ascii", "utf8"} => utf.ASCII = Escaped(utf.points)
    /\ utf.pc = "utf8" => utf.UTF8 = utf.Input

(***************************************************************************)
(* Encryption followed by decryption of the result: both schedules of a    *)
(* key on both paths, Encryptblock on the input, then Decryptblock on what *)
(* Encryptblock returned.                                                  *)
(***************************************************************************)
PortableDecryptEncrypted ==
    /\ ks.pc = "Decryptblock"
    /\ ks' = [ks EXCEPT !.pc = "HW::Decryptblock",
                        !.Decrypted =
                            BlockBytes(Decryptblock_ECB(RoundsOf(ks.Keysize),
                                                        BytesBlock(ks.Encrypted), ks.INVKeys))]
    /\ UNCHANGED notKs

HWDecryptEncrypted ==
    /\ ks.pc = "HW::Decryptblock"
    /\ ks' = [ks EXCEPT !.pc = "Done",
                        !.HWDecrypted =
                            HW_Decryptblock_ECB(RoundsOf(ks.Keysize), ks.HWEncrypted,
                                                ks.HWINVKeys)]
    /\ UNCHANGED notKs

NextInverse ==
    \/ PortableKeyexpansion
    \/ HWKeyexpansion
    \/ PortableINVKeyexpansion
    \/ HWINVKeyexpansion
    \/ PortableEncryptblock
    \/ HWEncryptblock
    \/ PortableDecryptEncrypted
    \/ HWDecryptEncrypted

SpecInverse == InitKeys /\ [][NextInverse]_vars

\* Round key i (from 1) of the inverse schedule as the claim has it: the forward keys in
\* reverse order, the interior ones through InvMixColumns.
ReversedKey(Keys, i) ==
    IF i = 1 \/ i = Len(Keys) THEN BlockBytes(Keys[Len(Keys) + 1 - i])
    ELSE RefInvMixColumns(BlockBytes(Keys[Len(Keys) + 1 - i]))

\* C19: Decryptblock with INVKeyexpansion(K) on the result of Encryptblock with
\* Keyexpansion(K) on B returns B, for every key of each size and every block, and the
\* inverse schedule is the forward schedule in reverse order with only the interior round
\* keys passed through the inverse Mix.
C19_DecryptInvertsEncrypt ==
    /\ Len(ks.Decrypted) > 0 => ks.Decrypted = ks.Input
    /\ Len(ks.HWDecrypted) > 0 => ks.HWDecrypted = ks.Input
    /\ Len(ks.INVKeys) > 0 =>
          \A i \in 1..Len(ks.INVKeys) : BlockBytes(ks.INVKeys[i]) = ReversedKey(ks.Keys, i)

\* A block that encryption under a 192-bit key changed has come back on both paths.
C19_Witness ==
    /\ ks.pc = "Done"
    /\ ks.Keysize = 6
    /\ ks.Input = FIPSPlain
    /\ ks.Encrypted # ks.Input
    /\ ks.Decrypted = FIPSPlain /\ ks.HWDecrypted = FIPSPlain
    /\ Len(ks.INVKeys) = 13 /\ ks.INVKeys[2] # ks.Keys[12]

(***************************************************************************)
(* The counter field of a CTR state as a number.                           *)
(***************************************************************************)
\* The bytes of the counter field of a state, least significant first.
FieldBytes(Countersize, Bigendian, State) ==
    [k \in 1..(Countersize \div 8) |-> State[IF Bigendian THEN 17 - k ELSE k]]

\* The bytes, least significant first, of the number after the one given, modulo 2^(8 n).
RECURSIVE PlusOne(_)
PlusOne(bytes) ==
    IF bytes = <<>> THEN <<>>
    ELSE IF Head(bytes) = 255 THEN <<0>> \o PlusOne(Tail(bytes))
    ELSE <<Head(bytes) + 1>> \o Tail(bytes)

\* C20: every CTR block step adds one, modulo 2^W, to the counter field read as a W-bit
\* unsigned integer in the configured endianness, so that after k steps the field is the
\* initial value plus k and no counter value comes twice within 2^W blocks.
C20_CounterAddsOne ==
    ctr.n > 0
        => FieldBytes(ctr.Countersize, ctr.Bigendian, ctr.State)
              = PlusOne(FieldBytes(ctr.Countersize, ctr.Bigendian, ctr.Before))

(***************************************************************************)
(* The multiplications by alpha on a HW::Block_t, on a sequence of tweaks: *)
(* HW::Mul128 and Modes::MUL128(HW::Block_t) on each tweak, the next tweak *)
(* being the one Modes::MUL128(Portable::Block_t) returns.                 *)
(***************************************************************************)
HWMul128 ==
    /\ mul.pc = "HW::Mul128" /\ mul.n < MaxDoublings
    /\ mul' = [mul EXCEPT !.pc = "HW::MUL128",
                          !.HW = [in |-> mul.Input, out |-> HW_Mul128(mul.Input)]]
    /\ UNCHANGED notMul

HWModesMUL128 ==
    /\ mul.pc = "HW::MUL128"
    /\ mul' = [mul EXCEPT !.pc = "Modes::MUL128",
                          !.HWModes = [in |-> mul.Input, out |-> HW_MUL128(mul.Input)]]
    /\ UNCHANGED notMul

PortableModesMUL128 ==
    /\ mul.pc = "Modes::MUL128"
    /\ mul' = [mul EXCEPT !.pc = "HW::Mul128",
                          !.Modes = [in |-> mul.Input, out |-> MUL128Bytes(mul.Input)],
                          !.Input = MUL128Bytes(mul.Input), !.n = mul.n + 1]
    /\ UNCHANGED notMul

NextMulHW ==
    \/ HWMul128
    \/ HWModesMUL128
    \/ PortableModesMUL128

InitMulHW ==
    /\ IdleBut("mul")
    /\ \E Input \in TweakChoices : mul = [MulFields EXCEPT !.pc = "HW::Mul128", !.Input = Input]

SpecMulHW == InitMulHW /\ [][NextMulHW]_vars

\* C21: for every tweak, bytes >= 0x80 included, HW::Mul128 and Modes::MUL128 on a HW block
\* return the sixteen bytes that Modes::MUL128 on the portable block returns.
C21_RepresentationsAgree ==
    /\ Len(mul.HW.in) > 0 => mul.HW.out = MUL128Bytes(mul.HW.in)
    /\ Len(mul.HWModes.in) > 0 => mul.HWModes.out = MUL128Bytes(mul.HWModes.in)

(***************************************************************************)
(* The passes of Padded::Encrypt, counted in drv.steps.                    *)
(***************************************************************************)
\* C22: on an L-byte input Padded::Encrypt makes exactly floor(L / 16) ordinary block steps,
\* one per full input block, and then exactly one step on the padded final block, whose
\* chaining value, counter or tweak is the State the last full block left.
C22_FullBlocksThenOne ==
    /\ (drv.pc = "EncryptLoop" /\ drv.encPadded) => drv.steps <= Len(drv.Plain) \div 16
    /\ (drv.pc = "Decrypt" /\ drv.encPadded) => drv.steps = (Len(drv.Plain) \div 16) + 1

(***************************************************************************)
(* back() of a Ringbuffer_t against the pushes made so far.                *)
(***************************************************************************)
\* The number, from 1, of the oldest push that k pushes on a capacity of N still retain.
OldestRetained(N, k) == IF k - N + 1 > 1 THEN k - N + 1 ELSE 1

\* C23: after k >= 1 pushes on a Ringbuffer_t of capacity N, back() is the oldest value still
\* retained, the value of push number max(1, k - N + 1), filled or not.
C23_BackIsOldest ==
    (ring.pc = "live" /\ ring.pushed # <<>>)
        => back(ring) = ring.pushed[OldestRetained(ring.N, Len(ring.pushed))]

(***************************************************************************)
(* Bytebuffer_t::Read into a variable that already holds a value, of any   *)
(* type at any place the earlier Reads have left the iterator.             *)
(***************************************************************************)
\* Buffer.resize(n) on a container: the elements kept, zeros appended.
Resized(Buffer, n) == [i \in 1..n |-> IF i <= Len(Buffer) THEN Buffer[i] ELSE 0]

\* What the Buffer holds when a Read returns false: after a stored BB_NONE it is {}; behind a
\* matching prefix a bool or an integer is not copied into, a vector is returned early before
\* its resize or resized to the Count, a blob is resized to the Size, a string has been
\* assigned.
Unfilled(o, Type, Buffer, h) ==
    IF o.ok \/ o.aborted \/ Type = "std::string" \/ h = "none" THEN o
    ELSE IF Type \in {"bool", "uint8_t", "uint16_t", "uint32_t"} \/ o.val = <<>>
         THEN [o EXCEPT !.val = Buffer]
         ELSE [o EXCEPT !.val = Resized(Buffer, Len(o.val))]

\* The outcomes of Read<Type>(Buffer) with Typechecked = true at iterator `it', the Buffer
\* holding a value before: on another stored ID than the expected one it is not modified.
ReadInto(r, it, Type, Buffer) ==
    IF Header(r, it, Type, TRUE) = "mismatch" THEN {ReadResult(FALSE, Buffer, it)}
    ELSE {Unfilled(o, Type, Buffer, Header(r, it, Type, TRUE)) : o \in Read(r, it, Type)}

\* The types a Read asks for.
ReadTypes ==
    {"bool", "uint8_t", "uint16_t", "uint32_t", "std::string", "std::vector<uint16_t>", "Blob_t"}

\* The value the destination holds before the Read: none of the written ones.
Held(Type) == IF Type \in {"bool", "uint8_t", "uint16_t", "uint32_t"} THEN <<1>> ELSE <<51, 52, 53>>

BufReadInto ==
    /\ buf.pc = "reading" /\ Len(buf.reads) < MaxWrites
    /\ \E Type \in ReadTypes :
          \E o \in ReadInto(buf, buf.Internaliterator, Type, Held(Type)) :
             buf' = [buf EXCEPT !.pc = IF o.aborted THEN "aborted" ELSE "reading",
                                !.Internaliterator = o.it,
                                !.reads = Append(buf.reads, [ok |-> o.ok, val |-> o.val]),
                                !.into = [Type |-> Type, Before |-> Held(Type), Buffer |-> o.val,
                                          at |-> buf.Internaliterator, ok |-> o.ok]]
    /\ UNCHANGED notBuf

NextBufInto ==
    \/ BufWrite
    \/ Rewind
    \/ BufReadInto

SpecBufInto == InitBuf /\ [][NextBufInto]_vars

\* C24: a type-checked Read that returns false, the stored ID being another than the
\* requested one or the buffer being exhausted, leaves the read position and the
\* destination variable as they were.
C24_FailedReadChangesNothing ==
    (buf.pc = "reading" /\ ~buf.into.ok)
        => /\ buf.Internaliterator = buf.into.at
           /\ buf.into.Buffer = buf.into.Before

(***************************************************************************)
(* The bytes of the 16-byte counter that an increment reads or writes.     *)
(***************************************************************************)
\* C25: for every counter width and either endianness, every byte index read or written
\* while the CTR counter is incremented lies within 0..15 of the 16-byte State.
C25_IncrementStaysInside ==
    ctr.n > 0 => ctr.touched \subseteq 0..15

(***************************************************************************)
(* Protobuffer_t, a Bytebuffer_t in owning mode with the tag last decoded. *)
(* The host is little endian: cmp::toLittle and cmp::fromLittle return     *)
(* their argument.  A uint64_t is a number.                                *)
(***************************************************************************)
VARINT == 0

I64 == 1

STRING_LEN == 2

I32 == 5

INVALID == 255

\* The loop of EncodeVARINT: a byte with the continuation bit per group of seven bits, the
\* least significant group first, until the Input is zero or ten bytes are filled.
RECURSIVE EncodeVARINTLoop(_, _)
EncodeVARINTLoop(Input, Buffer) ==
    IF Evaluated(Buffer) /\ (Len(Buffer) >= 10 \/ Input = 0) THEN Buffer
    ELSE EncodeVARINTLoop(Input \div 128, Append(Buffer, (Input % 128) + 128))

\* if (Size == 0) Size = 1; Buffer[Size - 1] &= 0x7F;
ClearMSB(Buffer) ==
    IF Buffer = <<>> THEN <<0>> ELSE [Buffer EXCEPT ![Len(Buffer)] = Buffer[Len(Buffer)] % 128]

EncodeVARINT(r, Input) == rawWrite(r, ClearMSB(EncodeVARINTLoop(Input, <<>>)))

\* The loop of DecodeVARINT from its pass i on: Value <<= 7, the byte that
\* Bytebuffer_t::Read<uint8_t>(false) returns (zero behind the end), its low seven bits
\* or-ed in, and the return on a byte without the continuation bit.
RECURSIVE DecodeVARINTLoop(_, _, _, _)
DecodeVARINTByte(r, Value, Byte, i) ==
    IF Byte.val[1] < 128 THEN [Value |-> Value * 128 + Byte.val[1], it |-> Byte.it]
    ELSE DecodeVARINTLoop(r, Byte.it, Value * 128 + (Byte.val[1] % 128), i + 1)

DecodeVARINTLoop(r, it, Value, i) ==
    IF i >= 10 THEN [Value |-> Value, it |-> it]
    ELSE DecodeVARINTByte(r, Value, ReadPOD(r, it, "uint8_t", FALSE), i)

\* DecodeVARINT with the iterator at `it': the value and the iterator it leaves.
DecodeVARINT(r, it) == DecodeVARINTLoop(r, it, 0, 0)

\* How many values a run encodes.
MaxVarints == 2

\* The values encoded: of one, two, three and four bytes, at both ends of each length.
VarintChoices == {0, 1, 127, 128, 300, 16383, 16384, 2097151, 2097152, 268435455}

PbEncodeVARINT ==
    /\ pb.pc = "writing" /\ Len(pb.written) < MaxVarints
    /\ \E Input \in VarintChoices :
          pb' = [EncodeVARINT(pb, Input) EXCEPT
                    !.written = Append(pb.written,
                                       [Input |-> Input,
                                        end |-> EncodeVARINT(pb, Input).Internaliterator])]
    /\ UNCHANGED notPb

\* Bytebuffer_t::Seek(0, SEEK_SET) after the last value.
PbSeekSet ==
    /\ pb.pc = "writing" /\ pb.written # <<>>
    /\ pb' = [pb EXCEPT !.pc = "reading", !.Internaliterator = 0]
    /\ UNCHANGED notPb

PbDecodeVARINT ==
    /\ pb.pc = "reading" /\ Len(pb.reads) < Len(pb.written)
    /\ pb' = [pb EXCEPT !.Internaliterator = DecodeVARINT(pb, pb.Internaliterator).it,
                        !.reads = Append(pb.reads, DecodeVARINT(pb, pb.Internaliterator))]
    /\ UNCHANGED notPb

NextVarint ==
    \/ PbEncodeVARINT
    \/ PbSeekSet
    \/ PbDecodeVARINT

InitVarint ==
    /\ IdleBut("pb")
    /\ pb = [PbFields EXCEPT !.pc = "writing"]

SpecVarint == InitVarint /\ [][NextVarint]_vars

\* C26: for every unsigned value v, those of more than one byte included, DecodeVARINT on the
\* bytes that EncodeVARINT(v) wrote returns v and consumes exactly those bytes.
C26_VarintRoundTrip ==
    \A k \in 1..Len(pb.reads) :
        /\ pb.reads[k].Value = pb.written[k].Input
        /\ pb.reads[k].it = pb.written[k].end

(***************************************************************************)
(* The tagged fields of a Protobuffer_t: Write(Value, Type, ID) and        *)
(* Read(Buffer, ID), the Buffer being a uint32_t for a VARINT or an I32    *)
(* field and a std::u8string for a STRING field.                           *)
(***************************************************************************)
EncodeTAG(r, ID, Type) == EncodeVARINT(r, ID * 8 + Type)

\* The pair DecodeTAG returns for the decoded Tag, and the iterator: at the front after a
\* Tag of zero.
TagOf(d) ==
    IF d.Value = 0 THEN [ID |-> 0, Type |-> INVALID, it |-> 0]
    ELSE [ID |-> d.Value \div 8, Type |-> d.Value % 8, it |-> d.it]

DecodeTAG(r, it) == TagOf(DecodeVARINT(r, it))

\* The iterator behind a string of the decoded Length: rawRead does not move it when fewer
\* bytes are left.
BehindSTRING(r, Length) ==
    IF rawRead(r, Length.it, Length.Value) THEN Length.it + Length.Value ELSE Length.it

\* "Skip the data" of Seek: the iterator behind the value of the current type.
SkipData(r) ==
    CASE r.Currenttype = VARINT -> DecodeVARINT(r, r.Internaliterator).it
      [] r.Currenttype = STRING_LEN -> BehindSTRING(r, DecodeVARINT(r, r.Internaliterator))
      [] r.Currenttype = I64 ->
            IF rawRead(r, r.Internaliterator, 8) THEN r.Internaliterator + 8
            ELSE r.Internaliterator
      [] r.Currenttype = I32 -> ReadPOD(r, r.Internaliterator, "uint32_t", FALSE).it
      [] OTHER -> r.Internaliterator

\* std::tie(CurrentID, Currenttype) = DecodeTAG();
Tagged(r, t) ==
    [r EXCEPT !.CurrentID = t.ID, !.Currenttype = t.Type, !.Internaliterator = t.it]

\* The "seek forward" loop of Seek.
RECURSIVE SeekForward(_, _)
SeekTagged(r, ID) ==
    IF r.Currenttype = INVALID THEN [ok |-> FALSE, r |-> r]
    ELSE IF ID = r.CurrentID THEN [ok |-> TRUE, r |-> r]
    ELSE SeekForward([r EXCEPT !.Internaliterator = SkipData(r)], ID)

SeekForward(r, ID) == SeekTagged(Tagged(r, DecodeTAG(r, r.Internaliterator)), ID)

\* Seek(ID): the early exit, the restart from the beginning for a smaller ID, the loop.
Seek(r, ID) ==
    IF ID = r.CurrentID /\ ID # 0 THEN [ok |-> TRUE, r |-> r]
    ELSE SeekForward(IF ID < r.CurrentID
                     THEN [r EXCEPT !.CurrentID = 0, !.Internaliterator = 0]
                     ELSE r, ID)

EncodeSTRING(r, Input) == rawWrite(EncodeVARINT(r, Len(Input)), Input)

\* Write(Value, Type, ID): the tag, then the value in the encoding of the Type.
WriteField(r, Value, Type, ID) ==
    CASE Type = VARINT -> EncodeVARINT(EncodeTAG(r, ID, Type), Value[1])
      [] Type = STRING_LEN -> EncodeSTRING(EncodeTAG(r, ID, Type), Value)
      [] Type = I32 -> WritePOD(EncodeTAG(r, ID, Type), "uint32_t", Value, FALSE)

\* What a Read leaves: its return value, the Buffer, the buffer object.
FieldRead(ok, val, r, it) == [ok |-> ok, val |-> val, r |-> [r EXCEPT !.Internaliterator = it]]

FieldVARINT(r, d) == FieldRead(TRUE, <<d.Value>>, r, d.it)

FieldI32(r, o) == FieldRead(TRUE, o.val, r, o.it)

\* DecodeSTRING: Length zero bytes, overwritten by rawRead when that many bytes are left.
FieldSTRING(r, Length) ==
    FieldRead(TRUE,
          IF rawRead(r, Length.it, Length.Value)
          THEN SubSeq(r.Data, Length.it + 1, Length.it + Length.Value)
          ELSE [i \in 1..Length.Value |-> 0],
          r, BehindSTRING(r, Length))

\* Read(Buffer, ID) behind the Seek: the conversion by Currenttype, false for a Buffer of
\* another kind than the field.
ReadSought(s, Type) ==
    IF ~s.ok THEN FieldRead(FALSE, Default(Type), s.r, s.r.Internaliterator)
    ELSE CASE s.r.Currenttype = VARINT /\ Type = "uint32_t" ->
                 FieldVARINT(s.r, DecodeVARINT(s.r, s.r.Internaliterator))
           [] s.r.Currenttype = I32 /\ Type = "uint32_t" ->
                 FieldI32(s.r, ReadPOD(s.r, s.r.Internaliterator, "uint32_t", FALSE))
           [] s.r.Currenttype = STRING_LEN /\ Type = "std::string" ->
                 FieldSTRING(s.r, DecodeVARINT(s.r, s.r.Internaliterator))
           [] OTHER -> FieldRead(FALSE, Default(Type), s.r, s.r.Internaliterator)

ReadField(r, ID, Type) == ReadSought(Seek(r, ID), Type)

\* How many fields a run writes, with the IDs 1, 2, .. in this order, and how many it reads.
MaxFields == 2

MaxReads == 3

FieldChoices ==
    {[Type |-> VARINT, Value |-> <<5>>], [Type |-> VARINT, Value |-> <<300>>],
     [Type |-> I32, Value |-> <<42>>],
     [Type |-> STRING_LEN, Value |-> <<72, 105>>], [Type |-> STRING_LEN, Value |-> <<>>]}

\* The type of the variable that a field of the wire type is read into.
BufferOf(Type) == IF Type = STRING_LEN THEN "std::string" ELSE "uint32_t"

PbWrite ==
    /\ pb.pc = "writing" /\ Len(pb.written) < MaxFields
    /\ \E f \in FieldChoices :
          pb' = [WriteField(pb, f.Value, f.Type, Len(pb.written) + 1) EXCEPT
                    !.written = Append(pb.written, f)]
    /\ UNCHANGED notPb

\* Read(Buffer, ID) of a field that was written.
PbRead ==
    /\ pb.pc = "reading" /\ Len(pb.reads) < MaxReads
    /\ \E ID \in 1..Len(pb.written) :
          pb' = [ReadField(pb, ID, BufferOf(pb.written[ID].Type)).r EXCEPT
                    !.reads = Append(pb.reads,
                                     [ID |-> ID,
                                      ok |-> ReadField(pb, ID, BufferOf(pb.written[ID].Type)).ok,
                                      val |-> ReadField(pb, ID, BufferOf(pb.written[ID].Type)).val])]
    /\ UNCHANGED notPb

NextProto ==
    \/ PbWrite
    \/ PbSeekSet
    \/ PbRead

SpecProto == InitVarint /\ [][NextProto]_vars

\* The buffer as it is before the first Read: rewound, no tag decoded.
Unsought(r) == [r EXCEPT !.Internaliterator = 0, !.CurrentID = 0, !.Currenttype = 0]

\* C27: a Read of a field present in the buffer returns the same value whichever Reads came
\* before it, the same field read several times in a row included: the value that the Read
\* returns as the first one on the rewound buffer.
C27_ReadsAreRepeatable ==
    \A k \in 1..Len(pb.reads) :
        /\ pb.reads[k].ok
        /\ pb.reads[k].val
              = ReadField(Unsought(pb), pb.reads[k].ID,
                          BufferOf(pb.written[pb.reads[k].ID].Type)).val

(***************************************************************************)
(* Inlinedvector<T, Fixedsize>.  Static[i] and Dynamic[i] of the code are  *)
(* Static[i + 1] and Dynamic[i + 1] here; Dynamic holds the elements that  *)
(* lie wholly inside the allocation.                                       *)
(***************************************************************************)
\* realloc(Dynamic, Bytes): the elements kept, the new memory not initialized.
Reallocated(v, Bytes, Garbage) ==
    [i \in 1..(Bytes \div v.sizeofT) |-> IF i <= Len(v.Dynamic) THEN v.Dynamic[i] ELSE Garbage]

\* reserve(Newsize), Garbage being what the new memory happens to hold.
reserve(v, Newsize, Garbage) ==
    IF Newsize > v.Capacity
    THEN [v EXCEPT !.Dynamic = Reallocated(v, Newsize - v.Fixedsize, Garbage),
                   !.Capacity = Newsize]
    ELSE v

\* Dynamic[Size++ - Fixedsize] = { args... }: a store outside the allocation is recorded.
DynamicStore(v, Value) ==
    IF v.Size - v.Fixedsize < Len(v.Dynamic)
    THEN [v EXCEPT !.Dynamic = [v.Dynamic EXCEPT ![v.Size - v.Fixedsize + 1] = Value],
                   !.Size = v.Size + 1]
    ELSE [v EXCEPT !.outside = v.outside \cup {[fn |-> "emplace_back",
                                                Index |-> v.Size - v.Fixedsize]},
                   !.Size = v.Size + 1]

\* emplace_back(args...) without the bookkeeping of the pushed values.
Emplaced(v, Value, Garbage) ==
    IF v.Size < v.Fixedsize
    THEN [v EXCEPT !.Static = [v.Static EXCEPT ![v.Size + 1] = Value], !.Size = v.Size + 1]
    ELSE DynamicStore(IF v.Size < v.Capacity THEN v ELSE reserve(v, v.Capacity + 1, Garbage),
                      Value)

\* What a load outside the allocation may return: nothing that was pushed, or any of it.
Unallocated(v) == {0} \cup {v.pushed[i] : i \in 1..Len(v.pushed)}

\* operator[](Index): the values it may return, and whether the load is inside the storage.
Subscript(v, Index) ==
    IF Index < v.Fixedsize THEN {[val |-> v.Static[Index + 1], inside |-> TRUE]}
    ELSE IF 1 + Index - v.Fixedsize < Len(v.Dynamic)
         THEN {[val |-> v.Dynamic[1 + Index - v.Fixedsize + 1], inside |-> TRUE]}
         ELSE {[val |-> x, inside |-> FALSE] : x \in Unallocated(v)}

\* The vector after a load: the value got, the load recorded when outside the storage.
Loaded(v, fn, Index, o) ==
    [v EXCEPT !.got = [fn |-> fn, Index |-> Index, val |-> o.val],
              !.outside = IF o.inside THEN v.outside
                          ELSE v.outside \cup {[fn |-> fn, Index |-> 1 + Index - v.Fixedsize]}]

\* How many elements beyond the inline capacity a run pushes.
MaxDynamic == 3

Fixedsizes == {1, 2, 3}

\* sizeof(T): a char, an int.
ElementSizes == {1, 4}

\* What memory that was not initialized may hold.
Uninitialized == {0, 205}

CanEmplace == vec.pc = "live" /\ Len(vec.pushed) < vec.Fixedsize + MaxDynamic

\* The k-th pushed value is 10 + k.
Inlinedvector_emplace_back ==
    /\ CanEmplace
    /\ \E Garbage \in Uninitialized :
          vec' = [Emplaced(vec, 11 + Len(vec.pushed), Garbage) EXCEPT
                     !.pushed = Append(vec.pushed, 11 + Len(vec.pushed))]
    /\ UNCHANGED notVec

Inlinedvector_push_back ==
    /\ CanEmplace
    /\ \E Garbage \in Uninitialized :
          vec' = [Emplaced(vec, 11 + Len(vec.pushed), Garbage) EXCEPT
                     !.pushed = Append(vec.pushed, 11 + Len(vec.pushed))]
    /\ UNCHANGED notVec

Inlinedvector_subscript ==
    /\ vec.pc = "live"
    /\ \E Index \in 0..(vec.Size - 1) :
          \E o \in Subscript(vec, Index) : vec' = Loaded(vec, "operator[]", Index, o)
    /\ UNCHANGED notVec

Inlinedvector_back ==
    /\ vec.pc = "live" /\ vec.Size > 0
    /\ \E o \in Subscript(vec, vec.Size - 1) : vec' = Loaded(vec, "back", vec.Size - 1, o)
    /\ UNCHANGED notVec

NextVec ==
    \/ Inlinedvector_emplace_back
    \/ Inlinedvector_push_back
    \/ Inlinedvector_subscript
    \/ Inlinedvector_back

InitVec ==
    /\ IdleBut("vec")
    /\ \E Fixedsize \in Fixedsizes, sizeofT \in ElementSizes :
          vec = [VecFields EXCEPT !.pc = "live", !.Fixedsize = Fixedsize,
                                  !.sizeofT = sizeofT, !.Capacity = Fixedsize,
                                  !.Static = [i \in 1..Fixedsize |-> 0]]

SpecVec == InitVec /\ [][NextVec]_vars

\* C28: after any pushes, operator[](i) returns the i-th pushed element for every i below
\* size(), on the heap as well as inline, back() returns the last pushed element, and no
\* access falls outside the allocated storage.
C28_SubscriptReturnsPushed ==
    /\ vec.got.fn # "none" => vec.got.val = vec.pushed[vec.got.Index + 1]
    /\ vec.outside = {}

====
